---- MODULE Spec2Model ----
(***************************************************************************)
(* Model of the metrics engine of stock_view: utils/financial_metrics.py   *)
(* (class FinancialMetrics) over the price table that                      *)
(* utils/data_fetcher.py hands to it.                                      *)
(*                                                                         *)
(* Numbers.  The code computes in IEEE doubles.  The model computes in     *)
(* exact arithmetic: a value is a rational a, or a + b*sqrt(r) where a     *)
(* square root was taken (rolling std), or one of the IEEE specials NaN,   *)
(* +inf, -inf, or Python's None.  Rounding error of doubles is not         *)
(* modelled; the sign of a zero is not modelled either (a zero divisor is  *)
(* taken as +0: in the expressions of this file -0 yields the same final   *)
(* value).                                                                 *)
(***************************************************************************)
EXTENDS Integers, Sequences, FiniteSets, TLC

(***************************************************************************)
(* Bounds of the model.                                                    *)
(***************************************************************************)
\* Every Series over the prices 1..MaxPrice of length 0..MaxLen is an input.
MaxLen == 3
MaxPrice == 2
\* The clock (datetime.now().year) runs over BaseYear..BaseYear+MaxYearsAhead.
MaxYearsAhead == 1
\* Calendar of the model: day number d lies in year d \div DaysPerYear; the
\* last bar of every generated Series is dated LastDay.
DaysPerYear == 6
LastDay == 303
\* The exponential averages are kept to 1 / EwmScale.
EwmScale == 10000
\* Every string over Alphabet of up to MaxSymbolLen characters is a symbol.
MaxSymbolLen == 4
\* A feed holds up to MaxEntries entries (two longer feeds apart), and a news
\* request asks for 1..MaxArticles articles.
MaxEntries == 2
MaxArticles == 3
\* yfinance answers with histories of up to MaxHistory rows.
MaxHistory == 2

(***************************************************************************)
(* Program constants.                                                      *)
(***************************************************************************)
RsiWindow == 14
MaShortWindow == 20
MaLongWindow == 50
BandPeriod == 20
BandStdDev == 2
MacdFast == 12
MacdSlow == 26
MacdSignal == 9
BollingerWindow == 20
BollingerNumStd == 2
HkCodeWidth == 4

(***************************************************************************)
(* Rationals: <<n, d>> with d > 0 and gcd(n, d) = 1.                        *)
(***************************************************************************)
Abs(x) == IF x < 0 THEN -x ELSE x

RECURSIVE Gcd(_, _)
Gcd(a, b) == IF b = 0 THEN a ELSE Gcd(b, a % b)

Q(n0, d0) ==
    LET Reduce(n, d) ==
            LET Over(g) == IF d < 0 THEN <<(-n) \div g, (-d) \div g>>
                           ELSE <<n \div g, d \div g>>
            IN  Over(Gcd(Abs(n), Abs(d)))
    IN  CHOOSE r \in {Reduce(n, d) : n \in {n0}, d \in {d0}} : TRUE

QInt(n) == <<n, 1>>
QZero == <<0, 1>>
QNeg(x) == <<-x[1], x[2]>>
\* Common factors are taken out before multiplying: the intermediate
\* products stay within TLC's integers.
QAdd(x, y) ==
    LET Over(g) == Q(x[1] * (y[2] \div g) + y[1] * (x[2] \div g), (x[2] \div g) * y[2])
    IN  Over(Gcd(x[2], y[2]))
QSub(x, y) == QAdd(x, QNeg(y))
QMul(x, y) ==
    LET Over(g1, g2) == <<(x[1] \div g1) * (y[1] \div g2), (x[2] \div g2) * (y[2] \div g1)>>
    IN  IF x[1] = 0 \/ y[1] = 0 THEN QZero
        ELSE Over(Gcd(Abs(x[1]), y[2]), Gcd(Abs(y[1]), x[2]))
\* y # 0
QDiv(x, y) == QMul(x, IF y[1] < 0 THEN <<-y[2], -y[1]>> ELSE <<y[2], y[1]>>)
QSign(x) == IF x[1] > 0 THEN 1 ELSE IF x[1] < 0 THEN -1 ELSE 0
QLess(x, y) == x[1] * y[2] < y[1] * x[2]

\* The integer square root of n >= 0 if n is a perfect square, else -1.
RECURSIVE SqrtSearch(_, _, _)
SqrtSearch(n, lo, hi) ==
    IF lo > hi THEN -1
    ELSE LET mid == (lo + hi) \div 2
         IN  IF mid * mid = n THEN mid
             ELSE IF mid * mid < n THEN SqrtSearch(n, mid + 1, hi)
             ELSE SqrtSearch(n, lo, mid - 1)
ISqrt(n) == SqrtSearch(n, 0, IF n < 46340 THEN n ELSE 46340)

(***************************************************************************)
(* Values of the code: floats (numpy.float64) and None.                    *)
(*   k = "num":  a + b * sqrt(r), r = <<0,1>> and b = 0 for a rational;    *)
(*               otherwise sqrt(r) is irrational                           *)
(*   k = "inf":  a = <<1,1>> for +inf, <<-1,1>> for -inf                   *)
(*   k = "nan", k = "none"                                                 *)
(***************************************************************************)
Val(k, a, b, r) == [k |-> k, a |-> a, b |-> b, r |-> r]
Num(q) == Val("num", q, QZero, QZero)
NumI(n) == Num(QInt(n))
NaN == Val("nan", QZero, QZero, QZero)
None == Val("none", QZero, QZero, QZero)
Inf(s) == Val("inf", QInt(s), QZero, QZero)

\* Evaluate e (e1, e2) once and hand the value to Body: the local variables
\* of the code.
Bind(e, Body(_)) == CHOOSE r \in {Body(v) : v \in {e}} : TRUE
Bind2(e1, e2, Body(_, _)) == CHOOSE r \in {Body(v, w) : v \in {e1}, w \in {e2}} : TRUE

IsNum(x) == x.k = "num"
IsRational(x) == x.k = "num" /\ x.b = QZero
\* pd.isna
IsNa(x) == x.k \in {"nan", "none"}
\* a + b * sqrt(r) in normal form
Surd(a, b, r) == IF b = QZero THEN Num(a) ELSE Val("num", a, b, r)
Radicand(x, y) == IF x.b # QZero THEN x.r ELSE y.r

\* The sign of a + b * sqrt(r).
SurdSign(a, b, r) ==
    IF QSign(a) = QSign(b) THEN QSign(a)
    ELSE IF QSign(a) > 0 THEN QSign(QSub(QMul(a, a), QMul(QMul(b, b), r)))
    ELSE QSign(QSub(QMul(QMul(b, b), r), QMul(a, a)))
\* The sign of a finite value or of an infinity.
FSign(x) ==
    IF x.k = "inf" \/ x.b = QZero THEN QSign(x.a)
    ELSE IF x.a = QZero THEN QSign(x.b)
    ELSE SurdSign(x.a, x.b, x.r)
IsZero(x) == x.k = "num" /\ x.a = QZero /\ x.b = QZero

FNeg(x0) ==
    Bind(x0, LAMBDA x :
        IF x.k = "num" THEN Val("num", QNeg(x.a), QNeg(x.b), x.r)
        ELSE IF x.k = "inf" THEN Inf(-x.a[1])
        ELSE x)

FAdd(x0, y0) ==
    Bind2(x0, y0, LAMBDA x, y :
        IF x.k = "nan" \/ y.k = "nan" THEN NaN
        ELSE IF x.k = "inf" /\ y.k = "inf" THEN (IF x.a = y.a THEN x ELSE NaN)
        ELSE IF x.k = "inf" THEN x
        ELSE IF y.k = "inf" THEN y
        ELSE Surd(QAdd(x.a, y.a), QAdd(x.b, y.b), Radicand(x, y)))

FSub(x, y) == FAdd(x, FNeg(y))

\* The product of two finite values over one radicand r.
SurdMul(x, y, r) ==
    Surd(QAdd(QMul(x.a, y.a), QMul(QMul(x.b, y.b), r)),
         QAdd(QMul(x.a, y.b), QMul(x.b, y.a)), r)

FMul(x0, y0) ==
    Bind2(x0, y0, LAMBDA x, y :
        IF x.k = "nan" \/ y.k = "nan" THEN NaN
        ELSE IF x.k = "inf" \/ y.k = "inf"
             THEN (IF IsZero(x) \/ IsZero(y) THEN NaN ELSE Inf(FSign(x) * FSign(y)))
        ELSE SurdMul(x, y, Radicand(x, y)))

\* 1 / y for a finite y # 0: the conjugate over the norm.
FInv(y0) ==
    Bind(y0, LAMBDA y :
        Bind(QSub(QMul(y.a, y.a), QMul(QMul(y.b, y.b), y.r)), LAMBDA norm :
            Surd(QDiv(y.a, norm), QDiv(QNeg(y.b), norm), y.r)))

\* Division of doubles: no exception, x/0 is inf or NaN.
FDiv(x0, y0) ==
    Bind2(x0, y0, LAMBDA x, y :
        IF x.k = "nan" \/ y.k = "nan" THEN NaN
        ELSE IF x.k = "inf" /\ y.k = "inf" THEN NaN
        ELSE IF x.k = "inf" THEN (IF IsZero(y) THEN x ELSE Inf(FSign(x) * FSign(y)))
        ELSE IF y.k = "inf" THEN NumI(0)
        ELSE IF IsZero(y) THEN (IF IsZero(x) THEN NaN ELSE Inf(FSign(x)))
        ELSE FMul(x, FInv(y)))

\* sqrt of a rational q >= 0
FSqrt(q0) ==
    Bind(q0, LAMBDA q :
        Bind2(ISqrt(q[1]), ISqrt(q[2]), LAMBDA sn, sd :
            IF sn >= 0 /\ sd >= 0 THEN Num(Q(sn, sd)) ELSE Val("num", QZero, QInt(1), q)))

\* x > 0 and x < 0 as Python compares floats: False on NaN.
FGt0(x) == x.k \in {"num", "inf"} /\ FSign(x) > 0
FLt0(x) == x.k \in {"num", "inf"} /\ FSign(x) < 0

\* x < y for finite values
FLess(x0, y0) ==
    Bind2(x0, y0, LAMBDA x, y :
        IF IsRational(x) /\ IsRational(y) THEN QLess(x.a, y.a)
        ELSE FSign(FSub(x, y)) < 0)
FMax(x0, y0) == Bind2(x0, y0, LAMBDA x, y : IF FLess(x, y) THEN y ELSE x)

(***************************************************************************)
(* The Series: the table stock_data, its 'Close' column and its date       *)
(* index.  Positions are 1-based here; iloc[-1] is position Len.           *)
(***************************************************************************)
Series(close, date) == [Close |-> close, Date |-> date]
Year(d) == d \div DaysPerYear
BaseYear == Year(LastDay)

\* Consecutive sessions ending on LastDay.
AscDates(n) == [i \in 1..n |-> LastDay - (n - i)]
\* Malformed indexes: every bar on one day, and dates running backwards.
DupDates(n) == [i \in 1..n |-> LastDay]
DescDates(n) == [i \in 1..n |-> LastDay - (i - 1)]

StrictlyIncreasing(date) ==
    \A i \in 1..(Len(date) - 1) : date[i] < date[i + 1]

Prices == 1..MaxPrice
ShortCloses == UNION {[1..n -> Prices] : n \in 0..MaxLen}
ShortSeries ==
    {Series(c, AscDates(Len(c))) : c \in ShortCloses}
    \cup {Series(c, DupDates(Len(c))) : c \in {x \in ShortCloses : Len(x) >= 2}}
    \cup {Series(c, DescDates(Len(c))) : c \in {x \in ShortCloses : Len(x) >= 2}}

\* Shaped closes of length n.
Linear(from, step, n) == [i \in 1..n |-> from + step * (i - 1)]
Flat(p, n) == [i \in 1..n |-> p]
\* falls by one a session down to position k, then rises by one a session
Vee(p, k, n) == [i \in 1..n |-> p + Abs(i - k)]
\* one session at p + 10, flat at p afterwards
Step(p, n) == [i \in 1..n |-> IF i = 1 THEN p + 10 ELSE p]
\* an irregular walk
Zig(p, n) == [i \in 1..n |-> p + ((i * i) % 7)]

Shape(kind, n) ==
    CASE kind = "flat" -> Flat(100, n)
      [] kind = "up"   -> Linear(100, 1, n)
      [] kind = "down" -> Linear(100 + n - 1, -1, n)
      [] kind = "vee"  -> Vee(100, (n \div 4) + 1, n)
      [] kind = "step" -> Step(100, n)
      [] kind = "zig"  -> Zig(100, n)

Shapes == {"flat", "up", "down", "vee", "step", "zig"}
MidLens == {13, 14, 15, 16, 19, 20, 21, 22, 30}
LongShapes == {"up", "down"}
LongLens == {63, 64, 126, 127, 252, 253}
ShapedSeries ==
    {Series(Shape(k, n), AscDates(n)) : k \in Shapes, n \in MidLens}
    \cup {Series(Shape(k, n), AscDates(n)) : k \in LongShapes, n \in LongLens}

\* The worked examples of the specification: the two-bar Series and the two
\* 30-bar linear Series (the latter two are Shape("up", 30), Shape("down", 30)).
TwoBar == <<100, 110>>
Up30 == Linear(100, 1, 30)
Down30 == Linear(129, -1, 30)
ExampleSeries == {Series(TwoBar, AscDates(Len(TwoBar)))}

InputSeries == ShortSeries \cup ShapedSeries \cup ExampleSeries

(***************************************************************************)
(* pandas helpers used by the engine.                                      *)
(***************************************************************************)
\* The 'Close' column as floats.
CloseValues(close) == [i \in 1..Len(close) |-> NumI(close[i])]

\* Series.diff(): NaN at the first position.
Diff(x) == [i \in 1..Len(x) |-> IF i = 1 THEN NaN ELSE FSub(x[i], x[i - 1])]

\* x[lo] + ... + x[hi]  (split in halves: the depth of the evaluation stays
\* logarithmic)
RECURSIVE SumRange(_, _, _)
SumRange(x, lo, hi) ==
    IF lo > hi THEN NumI(0)
    ELSE IF lo = hi THEN x[lo]
    ELSE LET mid == (lo + hi) \div 2
         IN  FAdd(SumRange(x, lo, mid), SumRange(x, mid + 1, hi))

\* Faulty variants (sensitivity tests of OverlayDefinedness, NoLookAhead): a
\* window that accepts a partial history, and a window that runs forward
\* from position i.
RollingMeanAtPartial(x, w, i) ==
    IF \E j \in 1..i : j > i - w /\ ~IsNum(x[j]) THEN NaN
    ELSE FDiv(SumRange(x, IF i > w THEN i - w + 1 ELSE 1, i), NumI(IF i > w THEN w ELSE i))
RollingMeanAtAhead(x, w, i) ==
    IF i + w - 1 > Len(x) \/ \E j \in i..(i + w - 1) : j <= Len(x) /\ ~IsNum(x[j]) THEN NaN
    ELSE FDiv(SumRange(x, i, i + w - 1), NumI(w))

\* Series.rolling(window=w).mean() at position i: min_periods is w, so the
\* value is NaN unless the window i-w+1..i lies in the Series and holds no NaN.
RollingMeanAt(x, w, i) ==
    IF i < w \/ \E j \in (i - w + 1)..i : ~IsNum(x[j]) THEN NaN
    ELSE FDiv(SumRange(x, i - w + 1, i), NumI(w))
RollingMean(x, w) == [i \in 1..Len(x) |-> RollingMeanAt(x, w, i)]

\* Series.rolling(window=w).std() at position i: the sample standard
\* deviation (ddof = 1) of the window.
RollingVarAt(x, w, i) ==
    IF i < w \/ \E j \in (i - w + 1)..i : ~IsNum(x[j]) THEN NaN
    ELSE Bind(RollingMeanAt(x, w, i), LAMBDA mean :
             Bind([j \in (i - w + 1)..i |->
                      Bind(FSub(x[j], mean), LAMBDA dev : FMul(dev, dev))],
                  LAMBDA dev2 : FDiv(SumRange(dev2, i - w + 1, i), NumI(w - 1))))
RollingStdAt(x, w, i) ==
    Bind(RollingVarAt(x, w, i), LAMBDA v : IF IsNum(v) THEN FSqrt(v.a) ELSE NaN)
RollingStd(x, w) == [i \in 1..Len(x) |-> RollingStdAt(x, w, i)]

(***************************************************************************)
(* FinancialMetrics._calculate_rsi                                         *)
(***************************************************************************)
\* delta.where(delta > 0, 0): the NaN of the first position fails the test
\* and becomes 0.
RsiGain(delta) == [i \in 1..Len(delta) |-> IF FGt0(delta[i]) THEN delta[i] ELSE NumI(0)]
\* Faulty variant (sensitivity test of RsiInPercentRange): the losses keep
\* their sign.
RsiLossSigned(delta) == [i \in 1..Len(delta) |-> IF FLt0(delta[i]) THEN delta[i] ELSE NumI(0)]
\* -delta.where(delta < 0, 0)
RsiLoss(delta) == [i \in 1..Len(delta) |-> FNeg(IF FLt0(delta[i]) THEN delta[i] ELSE NumI(0))]

RsiAt(prices, window, i) ==
    Bind(Diff(prices), LAMBDA delta :
        Bind2(RollingMeanAt(RsiGain(delta), window, i),
              RollingMeanAt(RsiLoss(delta), window, i),
              LAMBDA gain, loss :
                  Bind(FDiv(gain, loss), LAMBDA rs :
                      FSub(NumI(100), FDiv(NumI(100), FAdd(NumI(1), rs))))))

_calculate_rsi(prices, window) ==
    IF Len(prices) = 0 THEN None ELSE RsiAt(prices, window, Len(prices))

(***************************************************************************)
(* FinancialMetrics._calculate_macd.  The exponential averages are computed *)
(* in fixed point: a value v stands for v / EwmScale, and each step rounds  *)
(* down to that unit (the doubles of the code round each step to their last *)
(* bit).  Differences of the averages are exact.                            *)
(***************************************************************************)
\* A finite double whose value is not computed.
Fin == Val("fin", QZero, QZero, QZero)

\* n / d in units of 1 / EwmScale, d > 0.
ScaledQuotient(n, d) == (n \div d) * EwmScale + ((n % d) * EwmScale) \div d

\* Series.ewm(span=span).mean() (adjust=True): the weighted sum of the values
\* so far and the sum of the weights, the weight of an observation i steps
\* back being ((span - 1) / (span + 1))^i.  `before` is that pair at lo - 1.
EwmStep(before, u, span) ==
    << u + (before[1] * (span - 1)) \div (span + 1),
       EwmScale + (before[2] * (span - 1)) \div (span + 1) >>
RECURSIVE EwmSumsFrom(_, _, _, _, _)
EwmSumsFrom(u, span, lo, hi, before) ==
    IF lo > hi THEN << >>
    ELSE IF lo = hi THEN << EwmStep(before, u[lo], span) >>
    ELSE Bind(EwmSumsFrom(u, span, lo, (lo + hi) \div 2, before), LAMBDA left :
             left \o EwmSumsFrom(u, span, ((lo + hi) \div 2) + 1, hi, left[Len(left)]))
EwmMean(u, span) ==
    Bind(EwmSumsFrom(u, span, 1, Len(u), <<0, 0>>), LAMBDA sums :
        [t \in 1..Len(u) |-> ScaledQuotient(sums[t][1], sums[t][2])])

\* The closes in units of 1 / EwmScale.
ScaledPrices(prices) == [t \in 1..Len(prices) |-> prices[t].a[1] * EwmScale]
FromScaled(v) == Num(Q(v, EwmScale))

\* Faulty variant (sensitivity test of MacdLastValues): the first value of a
\* series.
FirstOf(series) == series[1]
\* series.iloc[-1]
LastOf(series) == series[Len(series)]

\* Faulty variant (sensitivity test of MacdDefinedUnlessEmpty): no value
\* before the slow average has a full span of bars.
MacdAfterWarmUp(prices) ==
    IF Len(prices) < MacdSlow
    THEN [macd |-> None, macd_signal |-> None, macd_histogram |-> None]
    ELSE [macd |-> Fin, macd_signal |-> Fin, macd_histogram |-> Fin]

_calculate_macd(prices) ==
    IF Len(prices) = 0
    THEN [macd |-> None, macd_signal |-> None, macd_histogram |-> None]
    ELSE Bind2(EwmMean(ScaledPrices(prices), MacdFast), EwmMean(ScaledPrices(prices), MacdSlow),
             LAMBDA ema_fast, ema_slow :
                 Bind([t \in 1..Len(prices) |-> ema_fast[t] - ema_slow[t]], LAMBDA macd :
                     Bind(EwmMean(macd, MacdSignal), LAMBDA macd_signal :
                         Bind([t \in 1..Len(prices) |-> macd[t] - macd_signal[t]],
                              LAMBDA macd_histogram :
                                  [macd |-> FromScaled(LastOf(macd)),
                                   macd_signal |-> FromScaled(LastOf(macd_signal)),
                                   macd_histogram |-> FromScaled(LastOf(macd_histogram))]))))

(***************************************************************************)
(* FinancialMetrics._calculate_bollinger_position.  The result is          *)
(* "raised" when prices.iloc[-1] fails on an empty Series; divided tells   *)
(* whether the division of the last line was executed.                     *)
(***************************************************************************)
BollingerUpperAt(prices, window, num_std, i) ==
    FAdd(RollingMeanAt(prices, window, i),
         FMul(RollingStdAt(prices, window, i), NumI(num_std)))
BollingerLowerAt(prices, window, num_std, i) ==
    FSub(RollingMeanAt(prices, window, i),
         FMul(RollingStdAt(prices, window, i), NumI(num_std)))

\* Faulty variant (sensitivity test of BollingerBandPosition): the position
\* measured down from the upper band.
BollingerPositionFromUpper(current_price, current_lower, current_upper) ==
    FMul(FDiv(FSub(current_upper, current_price),
              FSub(current_upper, current_lower)), NumI(100))

BollingerPosition(current_price, current_lower, current_upper) ==
    FMul(FDiv(FSub(current_price, current_lower),
              FSub(current_upper, current_lower)), NumI(100))

_calculate_bollinger_position(prices, window, num_std) ==
    IF Len(prices) = 0
    THEN [raised |-> TRUE, value |-> None, divided |-> FALSE]
    ELSE Bind2(BollingerUpperAt(prices, window, num_std, Len(prices)),
               BollingerLowerAt(prices, window, num_std, Len(prices)),
               LAMBDA current_upper, current_lower :
                   IF IsNa(current_upper) \/ IsNa(current_lower)
                   THEN [raised |-> FALSE, value |-> None, divided |-> FALSE]
                   ELSE [raised |-> FALSE,
                         value |-> BollingerPosition(prices[Len(prices)],
                                                     current_lower, current_upper),
                         divided |-> TRUE])

(***************************************************************************)
(* FinancialMetrics.get_technical_indicators                               *)
(***************************************************************************)
\* The local variables of the method when it ended; status tells whether it
\* returned (the dictionary holds the keys TechnicalMetrics) or raised.
TechResult(status, rsi, m, bb, divided) ==
    [status |-> status, rsi |-> rsi, macd |-> m.macd, macd_signal |-> m.macd_signal,
     macd_histogram |-> m.macd_histogram,
     bollinger_position |-> bb, bb_divided |-> divided, failed |-> {}]
IdleTech == TechResult("idle", None, _calculate_macd(<< >>), None, FALSE)
\* The keys of the dictionary returned (lines 206-211).
TechnicalMetrics == {"rsi", "macd", "macd_signal", "bollinger_position"}
\* The exception of line 243 leaves the method: `failed` names the metric
\* whose computation raised, and nothing is returned.
RaisedTech(rsi, m) ==
    [TechResult("raised", rsi, m, None, FALSE) EXCEPT !.failed = {"bollinger_position"}]

get_technical_indicators(data) ==
    Bind(CloseValues(data.Close), LAMBDA close_prices :
        Bind2(_calculate_macd(close_prices),
              _calculate_bollinger_position(close_prices, BollingerWindow, BollingerNumStd),
              LAMBDA m, bb :
                  IF bb.raised THEN RaisedTech(_calculate_rsi(close_prices, RsiWindow), m)
                  ELSE TechResult("ok", _calculate_rsi(close_prices, RsiWindow),
                                  m, bb.value, bb.divided)))

(***************************************************************************)
(* FinancialMetrics.get_performance_metrics                                *)
(***************************************************************************)
\* Faulty variant (sensitivity test of PeriodsInFixedOrder): the YTD entry
\* inserted first.
PeriodsYtdFirst ==
    << [name |-> "YTD", days |-> -1],
       [name |-> "1 Day", days |-> 1],
       [name |-> "1 Week", days |-> 5],
       [name |-> "1 Month", days |-> 21],
       [name |-> "3 Months", days |-> 63],
       [name |-> "6 Months", days |-> 126],
       [name |-> "1 Year", days |-> 252] >>

\* The periods dictionary in its insertion order; days = -1 stands for None.
Periods ==
    << [name |-> "1 Day", days |-> 1],
       [name |-> "1 Week", days |-> 5],
       [name |-> "1 Month", days |-> 21],
       [name |-> "3 Months", days |-> 63],
       [name |-> "6 Months", days |-> 126],
       [name |-> "1 Year", days |-> 252],
       [name |-> "YTD", days |-> -1] >>

\* q rounded to an integer, ties to even.
RoundHalfEven(q) ==
    LET a == Abs(q[1])
        whole == a \div q[2]
        rem == a % q[2]
        up == 2 * rem > q[2] \/ (2 * rem = q[2] /\ whole % 2 = 1)
    IN  IF up THEN whole + 1 ELSE whole

\* f"{x:.2f}%": the sign of x, and |x| in hundredths rounded to two decimals
\* (body "num"), or the text nan / inf.
Format2f(x) ==
    IF x.k = "nan" THEN [prefix |-> "", body |-> "nan", cents |-> 0]
    ELSE IF x.k = "inf"
         THEN [prefix |-> IF FSign(x) < 0 THEN "-" ELSE "", body |-> "inf", cents |-> 0]
    ELSE [prefix |-> IF FSign(x) < 0 THEN "-" ELSE "", body |-> "num",
          cents |-> RoundHalfEven(QMul(x.a, QInt(100)))]

\* The return string: an explicit "+" before a positive value.
ReturnStr(change_pct0) ==
    Bind(change_pct0, LAMBDA change_pct :
        IF FGt0(change_pct)
        THEN [Format2f(change_pct) EXCEPT !.prefix = "+"]
        ELSE Format2f(change_pct))

\* Faulty variant (sensitivity test of LinearSeriesReturns): the change taken
\* relative to the current price.
ChangePctOverCurrent(current_price0, start_price) ==
    Bind(current_price0, LAMBDA current_price :
        FMul(FDiv(FSub(current_price, start_price), current_price), NumI(100)))

ChangePct(current_price, start_price0) ==
    Bind(start_price0, LAMBDA start_price :
        FMul(FDiv(FSub(current_price, start_price), start_price), NumI(100)))

\* Faulty variant (sensitivity test of LookbackReturns): iloc[-days].
StartPositionOffByOne(n, days) == n - days + 1

\* The position of the close that a lookback of `days` sessions starts from:
\* iloc[-days-1].
StartPosition(n, days) == n - days

\* Faulty variant (sensitivity test of YtdRecord): the year mask left out.
YtdPositionsAnyYear(data, current_year) == {i \in 1..Len(data.Date) : TRUE}

\* The rows of stock_data whose index falls in current_year, in table order.
YtdPositions(data, current_year) ==
    {i \in 1..Len(data.Date) : Year(data.Date[i]) = current_year}
Min(S) == CHOOSE x \in S : \A y \in S : x <= y

YtdChange(data, current_year) ==
    Bind2(YtdPositions(data, current_year), CloseValues(data.Close),
          LAMBDA ytd, close :
              IF Cardinality(ytd) > 0
              THEN ChangePct(close[Len(close)], close[Min(ytd)])
              ELSE NumI(0))

\* One pass of the loop body: the record appended, or <<>> on `continue`.
PeriodRows(data, period, current_year) ==
    Bind(CloseValues(data.Close), LAMBDA close :
        IF period.name = "YTD"
        THEN << [Period |-> period.name, Return |-> ReturnStr(YtdChange(data, current_year))] >>
        ELSE IF Len(close) > period.days
             THEN << [Period |-> period.name,
                      Return |-> ReturnStr(ChangePct(close[Len(close)],
                                                     close[StartPosition(Len(close), period.days)]))] >>
             ELSE << >>)

RECURSIVE PerformanceRows(_, _, _)
PerformanceRows(data, k, current_year) ==
    IF k = 0 THEN << >>
    ELSE PerformanceRows(data, k - 1, current_year) \o PeriodRows(data, Periods[k], current_year)

PerfResult(status, rows) == [status |-> status, rows |-> rows, failed |-> {}]
IdlePerf == PerfResult("idle", << >>)
\* The exception of line 104 (current_price) leaves the method.
RaisedPerf == [PerfResult("raised", << >>) EXCEPT !.failed = {"current_price"}]

\* self.stock_data['Close'].iloc[-1] stands before the loop and outside its
\* try: on an empty table the IndexError leaves the method.
get_performance_metrics(data, current_year) ==
    IF Len(data.Close) = 0 THEN RaisedPerf
    ELSE PerfResult("ok", PerformanceRows(data, Len(Periods), current_year))

(***************************************************************************)
(* FinancialMetrics.get_volatility_metrics                                 *)
(***************************************************************************)
\* Series.pct_change(): NaN at the first position, then x[i] / x[i-1] - 1.
PctChange(x) ==
    [i \in 1..Len(x) |-> IF i = 1 THEN NaN ELSE FSub(FDiv(x[i], x[i - 1]), NumI(1))]
NotNa(v) == ~IsNa(v)
DropNa(x) == SelectSeq(x, NotNa)
Returns(data) == DropNa(PctChange(CloseValues(data.Close)))


\* Series.std() (ddof = 1) and Series.mean() of the returns.  The model keeps
\* what decides the code's branches: NaN (too few observations), an exact 0
\* (all observations equal), or Fin, a finite double whose value is not
\* computed.
StdOf(x) ==
    IF Len(x) < 2 THEN NaN
    ELSE IF \A i \in 1..Len(x) : x[i] = x[1] THEN NumI(0)
    ELSE Fin
MeanOf(x) == IF Len(x) = 0 THEN NaN ELSE Fin
\* x * c for a constant c > 0
Scaled(x) == IF x.k = "fin" \/ IsZero(x) \/ x.k = "nan" THEN x ELSE Fin
\* x - c and x / y for y # 0, on NaN / Fin
Shifted(x) == IF x.k = "nan" THEN NaN ELSE Fin
Ratio(x, y) == IF x.k = "nan" \/ y.k = "nan" THEN NaN ELSE Fin

\* annualized_volatility != 0: True on NaN.
NotEqualZero(x) == ~IsZero(x)

SharpeRatio(returns, annualized_volatility) ==
    Bind(Shifted(Scaled(MeanOf(returns))), LAMBDA excess_returns :
        IF NotEqualZero(annualized_volatility)
        THEN Ratio(excess_returns, annualized_volatility)
        ELSE NumI(0))

\* (1 + returns).cumprod() over positions lo..hi, carried on from `before`,
\* the product up to lo - 1.  (Split in halves: the depth of the evaluation
\* stays logarithmic.)
RECURSIVE CumProdFrom(_, _, _, _)
CumProdFrom(returns, lo, hi, before) ==
    IF lo > hi THEN << >>
    ELSE IF lo = hi THEN << FMul(before, FAdd(NumI(1), returns[lo])) >>
    ELSE Bind(CumProdFrom(returns, lo, (lo + hi) \div 2, before), LAMBDA left :
             left \o CumProdFrom(returns, ((lo + hi) \div 2) + 1, hi, left[Len(left)]))
CumProd(returns) == CumProdFrom(returns, 1, Len(returns), NumI(1))

\* Series.expanding().max() over positions lo..hi; `before` is the maximum up
\* to lo - 1 (-inf when there is none).
RECURSIVE ExpandingMaxFrom(_, _, _, _)
ExpandingMaxFrom(x, lo, hi, before) ==
    IF lo > hi THEN << >>
    ELSE IF lo = hi THEN << FMax(before, x[lo]) >>
    ELSE Bind(ExpandingMaxFrom(x, lo, (lo + hi) \div 2, before), LAMBDA left :
             left \o ExpandingMaxFrom(x, ((lo + hi) \div 2) + 1, hi, left[Len(left)]))
ExpandingMax(x) == ExpandingMaxFrom(x, 1, Len(x), Inf(-1))

\* Series.min(): NaN on an empty Series.
RECURSIVE MinRange(_, _, _)
MinRange(x, lo, hi) ==
    IF lo = hi THEN x[lo]
    ELSE Bind2(MinRange(x, lo, (lo + hi) \div 2), MinRange(x, ((lo + hi) \div 2) + 1, hi),
               LAMBDA l, r : IF FLess(r, l) THEN r ELSE l)
SeriesMin(x) == IF Len(x) = 0 THEN NaN ELSE MinRange(x, 1, Len(x))

\* Faulty variant (sensitivity test of MaxDrawdownFormula): the fall measured
\* against the current value.
DrawdownOverCurrent(cumulative_returns, rolling_max) ==
    [t \in 1..Len(cumulative_returns) |->
        FDiv(FSub(cumulative_returns[t], rolling_max[t]), cumulative_returns[t])]

Drawdown(cumulative_returns, rolling_max) ==
    [t \in 1..Len(cumulative_returns) |->
        FDiv(FSub(cumulative_returns[t], rolling_max[t]), rolling_max[t])]

MaxDrawdown(returns) ==
    Bind(CumProd(returns), LAMBDA cumulative_returns :
        Bind(ExpandingMax(cumulative_returns), LAMBDA rolling_max :
            Bind(Drawdown(cumulative_returns, rolling_max), LAMBDA drawdown :
                SeriesMin(drawdown))))

\* The position of the least element of x[lo..hi] (the first of equals).
RECURSIVE ArgMin(_, _, _)
ArgMin(x, lo, hi) ==
    IF lo = hi THEN lo
    ELSE Bind2(ArgMin(x, lo, (lo + hi) \div 2), ArgMin(x, ((lo + hi) \div 2) + 1, hi),
               LAMBDA l, r : IF FLess(x[r], x[l]) THEN r ELSE l)
RemoveAt(x, m) == SubSeq(x, 1, m - 1) \o SubSeq(x, m + 1, Len(x))

\* The k-th smallest element of x (k in 1..Len(x)): the element a sort of x
\* puts at position k.
RECURSIVE KthSmallest(_, _)
KthSmallest(x, k) ==
    Bind(ArgMin(x, 1, Len(x)), LAMBDA m :
        IF k = 1 THEN x[m] ELSE KthSmallest(RemoveAt(x, m), k - 1))

\* np.percentile(x, q) for a non-empty x, linear interpolation between the
\* two order statistics around the virtual index (n - 1) * q / 100.
Percentile(x, q) ==
    Bind(((Len(x) - 1) * q) \div 100, LAMBDA lo :
        Bind2(KthSmallest(x, lo + 1),
              KthSmallest(x, IF lo + 2 > Len(x) THEN Len(x) ELSE lo + 2),
              LAMBDA a, b :
                  FAdd(a, FMul(FSub(b, a), Num(Q(((Len(x) - 1) * q) % 100, 100))))))

VolResult(status, vol, sharpe, dd, var95) ==
    [status |-> status, annualized_volatility |-> vol, sharpe_ratio |-> sharpe,
     max_drawdown |-> dd, var_95 |-> var95, failed |-> {}]
IdleVol == VolResult("idle", None, None, None, None)
\* The keys of the dictionary returned (lines 181-186).
VolatilityMetrics == {"annualized_volatility", "sharpe_ratio", "max_drawdown", "var_95"}
\* The exception of line 179 (np.percentile) leaves the method.
RaisedVol == [VolResult("raised", None, None, None, None) EXCEPT !.failed = {"var_95"}]

\* np.percentile of an empty array raises in some numpy releases and yields
\* NaN in others: empty_raises is that choice of the installation.
get_volatility_metrics(data, empty_raises) ==
    Bind(Returns(data), LAMBDA returns :
        Bind(StdOf(returns), LAMBDA daily_volatility :
            Bind(Scaled(daily_volatility), LAMBDA annualized_volatility :
                IF Len(returns) = 0 /\ empty_raises THEN RaisedVol
                ELSE VolResult("ok",
                               Scaled(annualized_volatility),
                               SharpeRatio(returns, annualized_volatility),
                               FMul(MaxDrawdown(returns), NumI(100)),
                               IF Len(returns) = 0 THEN NaN
                               ELSE FMul(Percentile(returns, 5), NumI(100))))))

\* What a call can return: one outcome, or the two of an installation-dependent
\* np.percentile when there are no returns.
VolatilityOutcomes(data) ==
    IF Len(data.Close) <= 1
    THEN {get_volatility_metrics(data, TRUE), get_volatility_metrics(data, FALSE)}
    ELSE {get_volatility_metrics(data, FALSE)}

(***************************************************************************)
(* ChartCreator (utils/chart_utils.py): the figure is the set of its        *)
(* traces, each a name with the y values handed to go.Scatter; x is         *)
(* data.index, so a trace has one value per bar.                            *)
(***************************************************************************)
NoFigure == << >>
AddTrace(fig, name, y) == (name :> y) @@ fig

_add_moving_averages(fig, data) ==
    Bind(CloseValues(data.Close), LAMBDA prices :
        Bind2(RollingMean(prices, MaShortWindow), RollingMean(prices, MaLongWindow),
              LAMBDA ma_20, ma_50 :
                  AddTrace(AddTrace(fig, "MA 20", ma_20), "MA 50", ma_50)))

\* sma +/- std * std_dev, position by position.
BandSeries(sma, std, std_dev, sign) ==
    [i \in 1..Len(sma) |->
        IF sign > 0 THEN FAdd(sma[i], FMul(std[i], NumI(std_dev)))
        ELSE FSub(sma[i], FMul(std[i], NumI(std_dev)))]

_add_bollinger_bands(fig, data) ==
    Bind(CloseValues(data.Close), LAMBDA prices :
        Bind2(RollingMean(prices, BandPeriod), RollingStd(prices, BandPeriod),
              LAMBDA sma, std :
                  AddTrace(AddTrace(fig, "BB Upper", BandSeries(sma, std, BandStdDev, 1)),
                           "BB Lower", BandSeries(sma, std, BandStdDev, -1))))

\* create_line_chart (create_candlestick_chart and create_ohlc_chart add the
\* overlays in the same way).
create_line_chart(data, show_ma, show_bollinger) ==
    Bind(AddTrace(NoFigure, "Close Price", CloseValues(data.Close)), LAMBDA price_line :
        Bind(IF show_ma THEN _add_moving_averages(price_line, data) ELSE price_line,
             LAMBDA with_ma :
                 IF show_bollinger THEN _add_bollinger_bands(with_ma, data) ELSE with_ma))

(***************************************************************************)
(* StockDataFetcher (utils/data_fetcher.py): ticker symbols.  A string is  *)
(* the sequence of its characters.                                         *)
(***************************************************************************)
Str3(c1, c2, c3) == <<c1, c2, c3>>
DigitChars == {"0", "7"}
UpperChars == {"H", "K", "E"}
LowerChars == {"h"}
OtherChars == {"."}
Alphabet == DigitChars \cup UpperChars \cup LowerChars \cup OtherChars

\* str.upper(), character by character.
UpperChar(c) == IF c = "h" THEN "H" ELSE c
Upper(s) == [i \in 1..Len(s) |-> UpperChar(s[i])]

\* str.isdigit() and str.isalpha(): false on the empty string.
IsDigit(s) == Len(s) > 0 /\ \A i \in 1..Len(s) : s[i] \in DigitChars
IsAlpha(s) == Len(s) > 0 /\ \A i \in 1..Len(s) : s[i] \in (UpperChars \cup LowerChars)

\* old occurs in s at position i.
OccursAt(s, old, i) ==
    /\ i + Len(old) - 1 <= Len(s)
    /\ \A j \in 1..Len(old) : s[i + j - 1] = old[j]

\* s.replace(old, ''): the occurrences of old are found left to right without
\* overlap and dropped; what the removals bring together is not searched again.
RECURSIVE ReplaceFrom(_, _, _)
ReplaceFrom(s, old, i) ==
    IF i > Len(s) THEN << >>
    ELSE IF OccursAt(s, old, i) THEN ReplaceFrom(s, old, i + Len(old))
    ELSE <<s[i]>> \o ReplaceFrom(s, old, i + 1)
Replace(s, old) == ReplaceFrom(s, old, 1)

\* str.zfill(width) of a string of digits.
RECURSIVE Zeros(_)
Zeros(n) == IF n <= 0 THEN << >> ELSE <<"0">> \o Zeros(n - 1)
ZFill(s, width) == Zeros(width - Len(s)) \o s

DotHK == Str3(".", "H", "K")
DotHE == Str3(".", "H", "E")
\* symbol.upper().replace('.HK', '').replace('.HE', '')
CleanSymbol(symbol) == Replace(Replace(Upper(symbol), DotHK), DotHE)

format_hk_symbol(symbol0) ==
    Bind(CleanSymbol(symbol0), LAMBDA symbol :
        IF IsDigit(symbol) THEN ZFill(symbol, HkCodeWidth) \o DotHK ELSE symbol)

MarketInfo(market, exchange, formatted_symbol, currency) ==
    [market |-> market, exchange |-> exchange,
     formatted_symbol |-> formatted_symbol, currency |-> currency]

detect_market(symbol) ==
    Bind(CleanSymbol(symbol), LAMBDA symbol_clean :
        IF IsDigit(symbol_clean)
        THEN MarketInfo("Hong Kong", "HKEX", format_hk_symbol(symbol), "HKD")
        ELSE IF IsAlpha(symbol_clean)
        THEN MarketInfo("United States", "NASDAQ/NYSE", symbol_clean, "USD")
        ELSE MarketInfo("Other", "Various", symbol, "Various"))

\* The symbols a caller may pass: every string over the alphabet up to
\* MaxSymbolLen characters, and longer ones in which a suffix is repeated or
\* stands inside another.
RECURSIVE Strings(_)
Strings(n) ==
    IF n = 0 THEN {<< >>}
    ELSE Bind(Strings(n - 1), LAMBDA shorter :
             shorter \cup {Append(s, c) : s \in {t \in shorter : Len(t) = n - 1}, c \in Alphabet})
ExampleSymbols ==
    { <<"0", "0", "7", "0", "0">>,
      <<"0", "7", "0", "0", ".", "H", "K">>,
      <<"0", "7", "0", "0", ".", "h", "K">>,
      <<"7", ".", "H", "K", ".", "H", "E">>,
      <<".", "H", ".", "H", "K", "K">>,
      <<"7", ".", "H", ".", "H", "K", "K">> }
Symbols == Strings(MaxSymbolLen) \cup ExampleSymbols

(***************************************************************************)
(* NewsFetcher (utils/news_fetcher.py).  A feed is what feedparser.parse   *)
(* finds at a URL: the call raises, or it returns a feed with a title ("" *)
(* when feed.feed has none) and entries.  An entry carries a title or has *)
(* no title attribute, and building its article may raise.  An article is *)
(* written with its title, source and link; the link of the i-th entry of *)
(* the feed at url is written <<url, i>>.  summary and published play no   *)
(* part in what a request keeps and are left out.                          *)
(***************************************************************************)
Feed(raises, title, entries) == [raises |-> raises, title |-> title, entries |-> entries]
Entry(title) == [has_title |-> TRUE, title |-> title, raises |-> FALSE]
UntitledEntry == [has_title |-> FALSE, title |-> "", raises |-> FALSE]
BrokenEntry == [has_title |-> TRUE, title |-> "a", raises |-> TRUE]

\* self.news_sources: the Google News address is a template over the query.
GoogleNews(query) == <<"google_news", query>>
YahooFinance == <<"yahoo_finance">>
MarketWatch == <<"marketwatch">>
ReutersBusiness == <<"reuters_business">>

\* The article of lines 150-156.
ArticleOf(feed, entry, link) ==
    [title |-> IF entry.has_title THEN entry.title ELSE "No Title",
     link |-> link,
     source |-> IF feed.title # "" THEN feed.title ELSE "Unknown"]

\* The loop over feed.entries[:max_items] from entry i on: an entry whose
\* article cannot be built is skipped.
RECURSIVE ParseEntries(_, _, _, _)
ParseEntries(feed, url, i, last) ==
    IF i > last THEN << >>
    ELSE IF feed.entries[i].raises THEN ParseEntries(feed, url, i + 1, last)
    ELSE <<ArticleOf(feed, feed.entries[i], <<url, i>>)>> \o ParseEntries(feed, url, i + 1, last)

\* Faulty variant (sensitivity test of NewsSurvivesFailures): the inner try
\* left out, so that one broken entry loses the whole feed.
FetchLosesFeedOnBrokenEntry(feeds, url, max_items) ==
    Bind(feeds[url], LAMBDA feed :
        IF feed.raises THEN << >>
        ELSE IF \E i \in 1..Len(feed.entries) : i <= max_items /\ feed.entries[i].raises
        THEN << >>
        ELSE ParseEntries(feed, url, 1, IF Len(feed.entries) < max_items
                                        THEN Len(feed.entries) ELSE max_items))

_fetch_rss_feed(feeds, url, max_items) ==
    Bind(feeds[url], LAMBDA feed :
        IF feed.raises THEN << >>
        ELSE ParseEntries(feed, url, 1, IF Len(feed.entries) < max_items
                                        THEN Len(feed.entries) ELSE max_items))

\* A request keeps a log of the addresses it fetched, each with the articles
\* the fetch returned; articles.extend concatenates them.
Fetched(feeds, url, max_items) ==
    [url |-> url, articles |-> _fetch_rss_feed(feeds, url, max_items)]
RECURSIVE Collected(_, _)
Collected(log, k) == IF k = 0 THEN << >> ELSE Collected(log, k - 1) \o log[k].articles

\* for query in queries: fetch, extend, and break once len(articles) >=
\* max_articles (lines 44-56 and 188-198), from the k-th query on.
RECURSIVE QueryLoop(_, _, _, _, _, _)
QueryLoop(feeds, queries, k, max_items, max_articles, log0) ==
    IF k > Len(queries) THEN log0
    ELSE Bind(Append(log0, Fetched(feeds, GoogleNews(queries[k]), max_items)), LAMBDA log :
             IF Len(Collected(log, Len(log))) >= max_articles THEN log
             ELSE QueryLoop(feeds, queries, k + 1, max_items, max_articles, log))

\* Faulty variant (sensitivity test of NewsDeduplicated): the length test of
\* the loop left out.
UniqueArticlesUnlimited(articles, i, max_articles, unique_articles) ==
    articles

\* The loop of lines 69-72 from article i on; seen_titles is the set of the
\* titles of unique_articles.
RECURSIVE UniqueArticles(_, _, _, _)
UniqueArticles(articles, i, max_articles, unique_articles) ==
    IF i > Len(articles) THEN unique_articles
    ELSE IF /\ articles[i].title \notin
                  {unique_articles[j].title : j \in 1..Len(unique_articles)}
            /\ Len(unique_articles) < max_articles
         THEN UniqueArticles(articles, i + 1, max_articles, Append(unique_articles, articles[i]))
         ELSE UniqueArticles(articles, i + 1, max_articles, unique_articles)

\* A company name is the sequence of its words.  re.sub drops the corporate
\* words; the name left is a further query unless it is empty.
CorporateWords == {"Inc", "Corp", "Ltd", "Limited", "Company", "Co"}
CleanName(company_name) == SelectSeq(company_name, LAMBDA w : w \notin CorporateWords)
StockQueries(news_symbol, company_name) ==
    IF Len(company_name) > 0 /\ Len(CleanName(company_name)) > 0
    THEN <<news_symbol, CleanName(company_name)>>
    ELSE <<news_symbol>>

\* What a request returns (articles), with its arguments and what it did on
\* the way: the queries it was to search and the log of its fetches.
NewsResult(fn, max_articles, queries, log, articles) ==
    [status |-> "ok", fn |-> fn, max_articles |-> max_articles,
     queries |-> queries, log |-> log, articles |-> articles]
NoNews == [status |-> "idle"]

get_stock_news(feeds, news_symbol, company_name, max_articles) ==
    Bind(StockQueries(news_symbol, company_name), LAMBDA queries :
        Bind(Append(QueryLoop(feeds, queries, 1, 3, max_articles, << >>),
                    Fetched(feeds, YahooFinance, 2)),
             LAMBDA log :
                 NewsResult("get_stock_news", max_articles, queries, log,
                            UniqueArticles(Collected(log, Len(log)), 1, max_articles, << >>))))

\* The sources of lines 90-94 in their order; each article of a source is
\* relabelled with the name of the source.
MarketSources ==
    << [source_name |-> "Yahoo Finance", url |-> YahooFinance],
       [source_name |-> "MarketWatch", url |-> MarketWatch],
       [source_name |-> "Reuters Business", url |-> ReutersBusiness] >>
Relabelled(fetched, source_name) ==
    [fetched EXCEPT !.articles =
        [i \in 1..Len(fetched.articles) |-> [fetched.articles[i] EXCEPT !.source = source_name]]]
RECURSIVE SourceLoop(_, _)
SourceLoop(feeds, k) ==
    IF k = 0 THEN << >>
    ELSE Append(SourceLoop(feeds, k - 1),
                Relabelled(Fetched(feeds, MarketSources[k].url, 3), MarketSources[k].source_name))

get_market_news(feeds, max_articles) ==
    Bind(SourceLoop(feeds, Len(MarketSources)), LAMBDA log :
        NewsResult("get_market_news", max_articles, << >>, log,
                   UniqueArticles(Collected(log, Len(log)), 1, max_articles, << >>)))

hk_queries ==
    << <<"Hong", "Kong", "stock", "market">>, <<"HKEX">>, <<"Hang", "Seng", "Index">>, <<"HSI">> >>

get_hk_market_news(feeds, max_articles) ==
    Bind(QueryLoop(feeds, hk_queries, 1, 2, max_articles, << >>), LAMBDA log :
        NewsResult("get_hk_market_news", max_articles, hk_queries, log,
                   UniqueArticles(Collected(log, Len(log)), 1, max_articles, << >>)))

\* What the model lets the addresses hold.  Short feeds: every sequence of up
\* to MaxEntries entries titled "a" or "b" or broken; two longer feeds, one
\* with a feed title, untitled entries and more entries than any request
\* reads.
EntryKinds == {Entry("a"), Entry("b"), BrokenEntry}
RECURSIVE EntryLists(_)
EntryLists(n) ==
    IF n = 0 THEN {<< >>}
    ELSE Bind(EntryLists(n - 1), LAMBDA shorter :
             shorter \cup {Append(s, e) : s \in {t \in shorter : Len(t) = n - 1}, e \in EntryKinds})
FailingFeed == Feed(TRUE, "", << >>)
LongFeeds ==
    { Feed(FALSE, "Wire", <<UntitledEntry, Entry("c"), UntitledEntry, Entry("a")>>),
      Feed(FALSE, "", <<Entry("a"), BrokenEntry, Entry("a"), Entry("d")>>) }
Feeds == {FailingFeed} \cup {Feed(FALSE, "", e) : e \in EntryLists(MaxEntries)} \cup LongFeeds
FewFeeds ==
    {FailingFeed, Feed(FALSE, "", << >>), Feed(FALSE, "", <<Entry("b"), Entry("a")>>),
     Feed(FALSE, "", <<BrokenEntry, Entry("b")>>)} \cup LongFeeds
LastFeeds == {FailingFeed, Feed(FALSE, "", <<Entry("b"), Entry("a")>>)}

\* The symbol and the company names the news is asked for.
NewsSymbol == <<"AAPL">>
CompanyNames == {<< >>, <<"Inc">>, <<"Apple", "Inc">>, <<"AAPL">>}
Urls ==
    {GoogleNews(q) : q \in {NewsSymbol, <<"Apple">>} \cup {hk_queries[k] : k \in 1..Len(hk_queries)}}
        \cup {YahooFinance, MarketWatch, ReutersBusiness}
\* Four feeds fill the addresses of every request: the addresses a request
\* reads hold w[1], w[2], ... (Yahoo Finance, which two requests read, w[3]).
Slot(url) ==
    IF url \in {GoogleNews(NewsSymbol), MarketWatch, GoogleNews(hk_queries[1])} THEN 1
    ELSE IF url \in {GoogleNews(<<"Apple">>), ReutersBusiness, GoogleNews(hk_queries[2])} THEN 2
    ELSE IF url \in {YahooFinance, GoogleNews(hk_queries[3])} THEN 3
    ELSE 4
Webs == {[url \in Urls |-> w[Slot(url)]] : w \in Feeds \X FewFeeds \X FewFeeds \X LastFeeds}

(***************************************************************************)
(* The table as a DataFrame: besides the closes and the dates of its bars  *)
(* it has the name of its index and its column labels.  Of the values only *)
(* the closes are written; the other price columns are read and written in *)
(* the same places as Close.  stock_info is a dictionary, written as the   *)
(* function from its keys to their values.                                 *)
(***************************************************************************)
DataFrame(close, date, index_name, columns) ==
    [Close |-> close, Date |-> date, index_name |-> index_name, columns |-> columns]
\* The columns of the table get_stock_data returns.
ProviderColumns ==
    <<"Open", "High", "Low", "Close", "Volume", "Dividends", "Stock Splits",
      "Price_Change", "Price_Change_Pct">>
EmptyDict == [key \in {} |-> 0]
HasKey(dict, key) == key \in DOMAIN dict
\* bool(value) of a number.
Truthy(value) == value # 0

\* f"{x:,.0f}" of a rational number: the nearest integer.
Format0f(x) ==
    [prefix |-> IF FSign(x) < 0 THEN "-" ELSE "", body |-> "int", cents |-> 100 * RoundHalfEven(x.a)]

\* The optional rows of get_key_metrics in the order of the code: the key
\* read, the label, what stands before and after the number, and the factor
\* applied to it.  "cap" and "volume" scale the number by its magnitude.
KeyMetricRows ==
    << [key |-> "marketCap", Metric |-> "Market Cap", kind |-> "cap", before |-> "$"],
       [key |-> "trailingPE", Metric |-> "P/E Ratio", kind |-> "plain", before |-> ""],
       [key |-> "trailingEps", Metric |-> "EPS (TTM)", kind |-> "plain", before |-> "$"],
       [key |-> "dividendYield", Metric |-> "Dividend Yield", kind |-> "percent", before |-> ""],
       [key |-> "bookValue", Metric |-> "Book Value", kind |-> "plain", before |-> "$"],
       [key |-> "priceToBook", Metric |-> "Price/Book", kind |-> "plain", before |-> ""],
       [key |-> "fiftyTwoWeekHigh", Metric |-> "52W High", kind |-> "plain", before |-> "$"],
       [key |-> "fiftyTwoWeekLow", Metric |-> "52W Low", kind |-> "plain", before |-> "$"],
       [key |-> "beta", Metric |-> "Beta", kind |-> "plain", before |-> ""],
       [key |-> "averageVolume", Metric |-> "Avg Volume", kind |-> "volume", before |-> ""] >>

MetricValue(before, number, after) == [before |-> before, number |-> number, after |-> after]
\* The value of a row: the integers of the model stay below 1e12, the first
\* threshold of the market cap.
FormatMetric(row, value) ==
    CASE row.kind = "plain" -> MetricValue(row.before, Format2f(NumI(value)), "")
      [] row.kind = "percent" -> MetricValue(row.before, Format2f(FMul(NumI(value), NumI(100))), "%")
      [] row.kind = "cap" ->
            IF value >= 1000000000
            THEN MetricValue(row.before, Format2f(Num(Q(value, 1000000000))), "B")
            ELSE IF value >= 1000000
            THEN MetricValue(row.before, Format2f(Num(Q(value, 1000000))), "M")
            ELSE MetricValue(row.before, Format0f(NumI(value)), "")
      [] row.kind = "volume" ->
            IF value >= 1000000
            THEN MetricValue(row.before, Format2f(Num(Q(value, 1000000))), "M")
            ELSE IF value >= 1000
            THEN MetricValue(row.before, Format2f(Num(Q(value, 1000))), "K")
            ELSE MetricValue(row.before, Format0f(NumI(value)), "")

\* metrics after the first k optional rows: a row is appended when
\* stock_info.get(key) is truthy.
RECURSIVE KeyMetrics(_, _, _)
KeyMetrics(info, k, metrics) ==
    IF k = 0 THEN metrics
    ELSE Bind(KeyMetrics(info, k - 1, metrics), LAMBDA before :
             IF HasKey(info, KeyMetricRows[k].key) /\ Truthy(info[KeyMetricRows[k].key])
             THEN Append(before, [Metric |-> KeyMetricRows[k].Metric,
                                  Value |-> FormatMetric(KeyMetricRows[k],
                                                         info[KeyMetricRows[k].key])])
             ELSE before)

KeyResult(status, rows) == [status |-> status, rows |-> rows]
IdleKey == KeyResult("idle", << >>)

\* self.stock_data['Close'].iloc[-1] raises on an empty table.
get_key_metrics(info, data) ==
    IF Len(data.Close) = 0 THEN KeyResult("raised", << >>)
    ELSE KeyResult("ok",
             KeyMetrics(info, Len(KeyMetricRows),
                        << [Metric |-> "Current Price",
                            Value |-> MetricValue("$", Format2f(NumI(data.Close[Len(data.Close)])), "")] >>))

(***************************************************************************)
(* create_excel_download (app.py).  The function is handed a reference to  *)
(* the caller's table; what it returns is written with the state it leaves *)
(* that table in.                                                          *)
(***************************************************************************)
\* Series.round(2)
Round2(x) ==
    IF x.k # "num" THEN x
    ELSE Num(Q(FSign(x) * RoundHalfEven(QMul(x.a, QInt(100))), 100))
\* strftime('%Y-%m-%d') of a day of the model's calendar.
DateText(d) == [year |-> Year(d), day_of_year |-> d % DaysPerYear]

column_order ==
    <<"Date", "Open", "High", "Low", "Close", "Change %", "Volume",
      "Price_Change", "Price_Change_Pct">>
Labels(columns) == {columns[i] : i \in 1..Len(columns)}
IsIn(S) == [label \in Labels(column_order) |-> label \in S]
\* excel_data after reset_index, the Date text, 'Change %', the reordering
\* and the rounding: its columns, and of each row the date, close and change.
HistoricalData(excel_data) ==
    Bind2(CloseValues(excel_data.Close),
          IsIn(Labels(excel_data.columns) \cup {excel_data.index_name, "Change %"}),
          LAMBDA prices, present :
              [columns |-> SelectSeq(column_order, LAMBDA label : present[label]),
               rows |-> [i \in 1..Len(prices) |->
                            [Date |-> DateText(excel_data.Date[i]),
                             Close |-> Round2(prices[i]),
                             Change |-> Round2(FMul(PctChange(prices)[i], NumI(100)))]]])
\* dict.get(key, 'N/A') of the market_info handed in.
GetOrNA(dict, key) == IF HasKey(dict, key) THEN dict[key] ELSE "N/A"
Metadata(excel_data, export_symbol, info, year) ==
    [Symbol |-> export_symbol,
     CompanyName |-> GetOrNA(info, "company_name"),
     Market |-> GetOrNA(info, "market"),
     Currency |-> GetOrNA(info, "currency"),
     ExportYear |-> year,
     TotalRecords |-> Len(excel_data.Close)]

ExcelResult(status, table, historical, metadata) ==
    [status |-> status, stock_data |-> table, historical |-> historical, metadata |-> metadata]
IdleExcel == [status |-> "idle"]

\* Faulty variant (sensitivity test of TableNeverMutated): the copy left
\* out, so that the index of the caller's table is renamed.
ExcelDownloadWithoutCopy(table, export_symbol, info, year) ==
    Bind([table EXCEPT !.index_name = "Date"], LAMBDA excel_data :
        ExcelResult("ok", excel_data, HistoricalData(excel_data),
                    Metadata(excel_data, export_symbol, info, year)))

\* excel_data = stock_data.copy(); excel_data.index.name = 'Date': the copy
\* is renamed, the caller's table is the one handed in.
create_excel_download(table, export_symbol, info, year) ==
    Bind([table EXCEPT !.index_name = "Date"], LAMBDA excel_data :
        ExcelResult("ok", table, HistoricalData(excel_data),
                    Metadata(excel_data, export_symbol, info, year)))

\* The tables and dictionaries of the model: a few short tables and one of
\* 21 bars, under the index names yfinance gives to daily and intraday
\* history.
FrameCloses == {<< >>, <<1>>, <<1, 2>>, <<2, 1, 2>>, Linear(100, 1, 21)}
IndexNames == {"Date", "Datetime"}
FrameTables ==
    {DataFrame(c, AscDates(Len(c)), name, ProviderColumns) : c \in FrameCloses, name \in IndexNames}
StockInfos ==
    { EmptyDict,
      [key \in {"previousClose", "marketCap", "trailingPE", "dividendYield", "beta", "averageVolume"}
          |-> CASE key = "previousClose" -> 1
                [] key = "marketCap" -> 2500000
                [] key = "trailingPE" -> 15
                [] key = "dividendYield" -> 0
                [] key = "beta" -> 1
                [] key = "averageVolume" -> 1500] }
\* The record detect_market returns, as a dictionary.
AsDict(record) == [key \in DOMAIN record |-> record[key]]

(***************************************************************************)
(* StockDataFetcher.get_stock_data and the page (app.py main).  What       *)
(* yfinance answers is a reply: the history call raises, or it returns     *)
(* rows (a row is complete when none of its values is NaN) with or without *)
(* the required columns, and the info call raises or returns a             *)
(* dictionary.  Python's None is written Null.                             *)
(***************************************************************************)
Null == [null |-> TRUE]
Bar(close_price, complete) == [Close |-> close_price, complete |-> complete]
Reply(raises, rows, has_columns, info_raises, info) ==
    [raises |-> raises, rows |-> rows, has_columns |-> has_columns,
     info_raises |-> info_raises, info |-> info]

FetchResult(data, info, market) == [stock_data |-> data, stock_info |-> info, market_info |-> market]
NothingFetched == FetchResult(Null, Null, Null)

\* stock_data.dropna(): the complete rows.
CompleteCloses(rows) ==
    Bind(SelectSeq(rows, LAMBDA row : row.complete), LAMBDA kept :
        [i \in 1..Len(kept) |-> kept[i].Close])

get_stock_data(stock_symbol, reply) ==
    IF reply.raises \/ Len(reply.rows) = 0 \/ ~reply.has_columns THEN NothingFetched
    ELSE Bind(CompleteCloses(reply.rows), LAMBDA closes :
             FetchResult(DataFrame(closes, AscDates(Len(closes)), "Date", ProviderColumns),
                         IF reply.info_raises THEN EmptyDict ELSE reply.info,
                         AsDict(detect_market(stock_symbol))))

\* st.session_state as the function from its keys; lines 134-138 make the
\* first two.
NewSession == [key \in {"stock_data", "stock_info"} |-> Null]
StoredSession(fetched, stock_symbol) ==
    [key \in {"stock_data", "stock_info", "market_info", "symbol"} |->
        CASE key = "stock_data" -> fetched.stock_data
          [] key = "stock_info" -> fetched.stock_info
          [] key = "market_info" -> fetched.market_info
          [] key = "symbol" -> stock_symbol]

\* Faulty variant (sensitivity test of SessionFromOneFetch): the table is
\* stored whenever it is not None.
StoresEmptyTable(session, clicked, stock_symbol, fetched) ==
    IF clicked /\ stock_symbol # << >> /\ fetched.stock_data # Null
    THEN StoredSession(fetched, stock_symbol)
    ELSE session

\* Lines 181-199: the session after the button has been handled.
AfterAnalyze(session, clicked, stock_symbol, fetched) ==
    IF clicked /\ stock_symbol # << >> /\ fetched.stock_data # Null
              /\ Len(fetched.stock_data.Close) > 0
    THEN StoredSession(fetched, stock_symbol)
    ELSE session

\* Lines 218-221.  The default of stock_info.get is an argument: iloc[-2] is
\* evaluated, and raises on a table of one bar, before get looks for the key.
Header(status, previous_close, price_change, price_change_pct) ==
    [status |-> status, previous_close |-> previous_close,
     price_change |-> price_change, price_change_pct |-> price_change_pct]
NoHeader == Header("none", None, None, None)
HeaderPriceChange(data, info) ==
    IF Len(data.Close) < 2 THEN Header("raised", None, None, None)
    ELSE Bind2(NumI(data.Close[Len(data.Close)]),
               IF HasKey(info, "previousClose") THEN NumI(info["previousClose"])
               ELSE NumI(data.Close[Len(data.Close) - 1]),
               LAMBDA current_price, previous_close :
                   Header("ok", previous_close, FSub(current_price, previous_close),
                          FMul(FDiv(FSub(current_price, previous_close), previous_close),
                               NumI(100))))

\* The dashboard below the header (lines 247-318): the chart, the two tables
\* of a FinancialMetrics object made for this run, and the export, which is
\* handed market_info with the company name added.  (The line chart stands
\* for the three chart types.)
Enhanced(info, market, shown_symbol) ==
    [key \in DOMAIN market \cup {"company_name"} |->
        IF key = "company_name"
        THEN (IF HasKey(info, "longName") THEN info["longName"] ELSE shown_symbol)
        ELSE market[key]]
Dashboard(data, info, market, shown_symbol, show_ma, show_bollinger, year) ==
    [chart |-> create_line_chart(data, show_ma, show_bollinger),
     key_metrics |-> get_key_metrics(info, data),
     performance |-> get_performance_metrics(data, year),
     excel |-> create_excel_download(data, shown_symbol,
                                     Enhanced(info, market, shown_symbol), year)]
NoDashboard == [chart |-> NoFigure, key_metrics |-> IdleKey, performance |-> IdlePerf,
                excel |-> IdleExcel]

\* One run of the script: what the button did, and what was shown.
Request(clicked, stock_symbol, fetch, fetched, view, header, engine, shown) ==
    [clicked |-> clicked, stock_symbol |-> stock_symbol, fetch |-> fetch,
     fetched |-> fetched, view |-> view, header |-> header, engine |-> engine,
     shown |-> shown]
NoRequest == Request(FALSE, << >>, "none", NothingFetched, "none", NoHeader, FALSE, NoDashboard)

\* What the button did: no fetch (not clicked, or no symbol), a fetch that
\* gave a table with rows, or one that failed.
FetchOutcome(clicked, stock_symbol, fetched) ==
    IF ~clicked \/ stock_symbol = << >> THEN "none"
    ELSE IF fetched.stock_data # Null /\ Len(fetched.stock_data.Close) > 0 THEN "ok"
    ELSE "failed"

\* Line 202 on: the dashboard is drawn from the session whenever it holds a
\* table, the welcome screen otherwise; an exception in the header ends the
\* run before the chart and FinancialMetrics.
Render(after, clicked, stock_symbol, fetched, show_ma, show_bollinger, year) ==
    IF after["stock_data"] = Null \/ after["stock_info"] = Null
    THEN [session_state |-> after,
          request |-> Request(clicked, stock_symbol,
                              FetchOutcome(clicked, stock_symbol, fetched),
                              fetched, "welcome", NoHeader, FALSE, NoDashboard)]
    ELSE Bind(HeaderPriceChange(after["stock_data"], after["stock_info"]), LAMBDA header :
             IF header.status # "ok"
             THEN [session_state |-> after,
                   request |-> Request(clicked, stock_symbol,
                                       FetchOutcome(clicked, stock_symbol, fetched),
                                       fetched, "exception", header, FALSE, NoDashboard)]
             ELSE Bind(Dashboard(after["stock_data"], after["stock_info"],
                                 IF HasKey(after, "market_info") THEN after["market_info"]
                                 ELSE EmptyDict,
                                 IF HasKey(after, "symbol") THEN after["symbol"]
                                 ELSE stock_symbol,
                                 show_ma, show_bollinger, year),
                       LAMBDA shown :
                           [session_state |->
                                [after EXCEPT !["stock_data"] = shown.excel.stock_data],
                            request |-> Request(clicked, stock_symbol,
                                                FetchOutcome(clicked, stock_symbol, fetched),
                                                fetched, "dashboard", header, TRUE, shown)]))

main(session, clicked, stock_symbol, reply, show_ma, show_bollinger, year) ==
    Bind(IF clicked /\ stock_symbol # << >> THEN get_stock_data(stock_symbol, reply)
         ELSE NothingFetched,
         LAMBDA fetched :
             Render(AfterAnalyze(session, clicked, stock_symbol, fetched),
                    clicked, stock_symbol, fetched, show_ma, show_bollinger, year))

\* The inputs of the model: what is typed into the symbol box, and the
\* replies of yfinance.
SymbolTexts == {<< >>, <<"h">>, <<"7">>, <<".", "h">>}
\* The sidebar: the symbol box and the two overlay checkboxes, empty and
\* unchecked when the page opens.  The overlays are both off or both on.
Sidebar(text, show_ma, show_bollinger) ==
    [text |-> text, show_ma |-> show_ma, show_bollinger |-> show_bollinger]
NewSidebar == Sidebar(<< >>, FALSE, FALSE)
ChartOptions == {<<FALSE, FALSE>>, <<TRUE, TRUE>>}
BarKinds == {Bar(1, TRUE), Bar(2, FALSE)}
RECURSIVE BarLists(_)
BarLists(n) ==
    IF n = 0 THEN {<< >>}
    ELSE Bind(BarLists(n - 1), LAMBDA shorter :
             shorter \cup {Append(s, b) : s \in {t \in shorter : Len(t) = n - 1}, b \in BarKinds})
Histories == BarLists(MaxHistory) \cup {<<Bar(1, TRUE), Bar(2, TRUE)>>}
Unasked == Reply(TRUE, << >>, FALSE, FALSE, EmptyDict)
Replies ==
    {Reply(TRUE, << >>, TRUE, FALSE, EmptyDict),
     Reply(FALSE, <<Bar(1, TRUE)>>, FALSE, FALSE, EmptyDict)}
        \cup {Reply(FALSE, rows, TRUE, FALSE, info) : rows \in Histories, info \in StockInfos}
        \cup {Reply(FALSE, rows, TRUE, TRUE, EmptyDict) : rows \in Histories}

(***************************************************************************)
(* The state: one FinancialMetrics object, the clock that datetime.now()   *)
(* reads, and what each method last returned to its caller.                *)
(***************************************************************************)
VARIABLES stock_data, now_year, performance, volatility, technical, fig

\* StockDataFetcher: the symbol a caller holds, what format_hk_symbol returned
\* for it, what it returned when handed its own result, and what detect_market
\* returned.
VARIABLES symbol, formatted, reformatted, market_info

\* NewsFetcher: what the feed addresses hold, and what the last news request
\* returned.
VARIABLES feeds, news

\* The page: st.session_state, what the last run of the script did, and the
\* widgets of the sidebar.
VARIABLES session_state, request, sidebar

\* The dictionary FinancialMetrics is constructed with, what get_key_metrics
\* returned, and what create_excel_download returned.
VARIABLES stock_info, key_metrics, excel

engine_vars == <<stock_data, now_year, performance, volatility, technical, fig>>
symbol_vars == <<symbol, formatted, reformatted, market_info>>
news_vars == <<feeds, news>>
export_vars == <<stock_info, key_metrics, excel>>
app_vars == <<session_state, request, sidebar>>
\* What the methods of FinancialMetrics and ChartCreator modelled first do not
\* touch.
outside_engine == <<symbol_vars, news_vars, export_vars, app_vars>>
vars == <<engine_vars, outside_engine>>

\* What a call left with its caller: nothing before the call, else the value
\* returned.
NotCalled == [status |-> "idle"]
Returned(value) == [status |-> "ok", value |-> value]

\* The page has not been opened.
NoPage ==
    /\ session_state = NewSession
    /\ request = NoRequest
    /\ sidebar = NewSidebar

\* No key metrics and no export have been asked for.
NoExport ==
    /\ stock_info = EmptyDict
    /\ key_metrics = IdleKey
    /\ excel = IdleExcel

\* No news is being asked for.
NoFeed ==
    /\ feeds = [url \in Urls |-> FailingFeed]
    /\ news = NoNews

\* No symbol is being looked up.
NoSymbol ==
    /\ symbol = << >>
    /\ formatted = NotCalled
    /\ reformatted = NotCalled
    /\ market_info = NotCalled

ClockYears == BaseYear..(BaseYear + MaxYearsAhead)

\* FinancialMetrics(stock_info, stock_data): the constructor stores the table
\* as it is given; no method has been called yet.
Init ==
    /\ stock_data \in InputSeries
    /\ now_year = BaseYear
    /\ performance = IdlePerf
    /\ volatility = IdleVol
    /\ technical = IdleTech
    /\ fig = NoFigure
    /\ NoSymbol
    /\ NoFeed
    /\ NoExport
    /\ NoPage

GetPerformanceMetrics ==
    /\ performance' = get_performance_metrics(stock_data, now_year)
    /\ UNCHANGED <<stock_data, now_year, volatility, technical, fig>>
    /\ UNCHANGED outside_engine

GetVolatilityMetrics ==
    /\ volatility' \in VolatilityOutcomes(stock_data)
    /\ UNCHANGED <<stock_data, now_year, performance, technical, fig>>
    /\ UNCHANGED outside_engine

GetTechnicalIndicators ==
    /\ technical' = get_technical_indicators(stock_data)
    /\ UNCHANGED <<stock_data, now_year, performance, volatility, fig>>
    /\ UNCHANGED outside_engine

\* The calendar year turns.
NewYear ==
    /\ now_year < BaseYear + MaxYearsAhead
    /\ now_year' = now_year + 1
    /\ UNCHANGED <<stock_data, performance, volatility, technical, fig>>
    /\ UNCHANGED outside_engine

Next ==
    \/ GetPerformanceMetrics
    \/ GetVolatilityMetrics
    \/ GetTechnicalIndicators
    \/ NewYear

Spec == Init /\ [][Next]_vars

(***************************************************************************)
(* The chart.  ChartCreator shares no state with FinancialMetrics: it is    *)
(* handed the same table and builds a new figure on every call, so its      *)
(* behaviours are specified apart, over Series whose lengths lie around     *)
(* the two windows.                                                         *)
(***************************************************************************)
ChartLens == {19, 20, 21, 49, 50, 51, 64}
ChartSeries ==
    ShortSeries \cup {Series(Shape(k, n), AscDates(n)) : k \in Shapes, n \in ChartLens}

ChartInit ==
    /\ stock_data \in ChartSeries
    /\ now_year = BaseYear
    /\ performance = IdlePerf
    /\ volatility = IdleVol
    /\ technical = IdleTech
    /\ fig = NoFigure
    /\ NoSymbol
    /\ NoFeed
    /\ NoExport
    /\ NoPage

CreateChart ==
    /\ \E show_ma \in BOOLEAN, show_bollinger \in BOOLEAN :
          fig' = create_line_chart(stock_data, show_ma, show_bollinger)
    /\ UNCHANGED <<stock_data, now_year, performance, volatility, technical>>
    /\ UNCHANGED outside_engine

ChartNext == CreateChart

ChartSpec == ChartInit /\ [][ChartNext]_vars

(***************************************************************************)
(* The symbol look-up.  StockDataFetcher keeps no state of its own; a       *)
(* caller formats a symbol, may hand the result back to format_hk_symbol,   *)
(* and asks detect_market for the market of the symbol.                     *)
(***************************************************************************)
\* No FinancialMetrics object and no figure exist.
NoEngine ==
    /\ stock_data = Series(<< >>, << >>)
    /\ now_year = BaseYear
    /\ performance = IdlePerf
    /\ volatility = IdleVol
    /\ technical = IdleTech
    /\ fig = NoFigure

SymbolInit ==
    /\ symbol \in Symbols
    /\ formatted = NotCalled
    /\ reformatted = NotCalled
    /\ market_info = NotCalled
    /\ NoEngine
    /\ NoFeed
    /\ NoExport
    /\ NoPage

FormatHkSymbol ==
    /\ formatted' = Returned(format_hk_symbol(symbol))
    /\ UNCHANGED <<symbol, reformatted, market_info>>
    /\ UNCHANGED <<engine_vars, news_vars, export_vars, app_vars>>

FormatHkSymbolAgain ==
    /\ formatted.status = "ok"
    /\ reformatted' = Returned(format_hk_symbol(formatted.value))
    /\ UNCHANGED <<symbol, formatted, market_info>>
    /\ UNCHANGED <<engine_vars, news_vars, export_vars, app_vars>>

DetectMarket ==
    /\ market_info' = Returned(detect_market(symbol))
    /\ UNCHANGED <<symbol, formatted, reformatted>>
    /\ UNCHANGED <<engine_vars, news_vars, export_vars, app_vars>>

SymbolNext ==
    \/ FormatHkSymbol
    \/ FormatHkSymbolAgain
    \/ DetectMarket

SymbolSpec == SymbolInit /\ [][SymbolNext]_vars

(***************************************************************************)
(* The news.  NewsFetcher keeps no state between requests; the feeds are    *)
(* what the addresses hold while the requests are made.                     *)
(***************************************************************************)
NewsInit ==
    /\ feeds \in Webs
    /\ news = NoNews
    /\ NoEngine
    /\ NoSymbol
    /\ NoExport
    /\ NoPage

GetStockNews ==
    /\ \E company_name \in CompanyNames, max_articles \in 1..MaxArticles :
          news' = get_stock_news(feeds, NewsSymbol, company_name, max_articles)
    /\ UNCHANGED <<feeds, engine_vars, symbol_vars, export_vars, app_vars>>

GetMarketNews ==
    /\ \E max_articles \in 1..MaxArticles : news' = get_market_news(feeds, max_articles)
    /\ UNCHANGED <<feeds, engine_vars, symbol_vars, export_vars, app_vars>>

GetHkMarketNews ==
    /\ \E max_articles \in 1..MaxArticles : news' = get_hk_market_news(feeds, max_articles)
    /\ UNCHANGED <<feeds, engine_vars, symbol_vars, export_vars, app_vars>>

NewsNext ==
    \/ GetStockNews
    \/ GetMarketNews
    \/ GetHkMarketNews

NewsSpec == NewsInit /\ [][NewsNext]_vars

(***************************************************************************)
(* The table under every operation that is handed it: the methods of        *)
(* FinancialMetrics, the chart, and the export.  The state after an         *)
(* operation holds the table as the operation left it.                      *)
(***************************************************************************)
FrameInit ==
    /\ stock_data \in FrameTables
    /\ stock_info \in StockInfos
    /\ now_year = BaseYear
    /\ performance = IdlePerf
    /\ volatility = IdleVol
    /\ technical = IdleTech
    /\ fig = NoFigure
    /\ key_metrics = IdleKey
    /\ excel = IdleExcel
    /\ symbol = <<"7">>
    /\ market_info = Returned(detect_market(symbol))
    /\ formatted = NotCalled
    /\ reformatted = NotCalled
    /\ NoFeed
    /\ NoPage

GetKeyMetrics ==
    /\ key_metrics' = get_key_metrics(stock_info, stock_data)
    /\ UNCHANGED <<engine_vars, symbol_vars, news_vars, app_vars, stock_info, excel>>

\* The table of the next state is the one the call left behind.
CreateExcelDownload ==
    /\ excel' = create_excel_download(stock_data, symbol, AsDict(market_info.value), now_year)
    /\ stock_data' = excel'.stock_data
    /\ UNCHANGED <<now_year, performance, volatility, technical, fig>>
    /\ UNCHANGED <<symbol_vars, news_vars, app_vars, stock_info, key_metrics>>

FrameNext ==
    \/ GetKeyMetrics
    \/ GetPerformanceMetrics
    \/ GetVolatilityMetrics
    \/ GetTechnicalIndicators
    \/ CreateChart
    \/ CreateExcelDownload

FrameSpec == FrameInit /\ [][FrameNext]_vars

(***************************************************************************)
(* The page.  Streamlit runs main() from top to bottom on every             *)
(* interaction: with the Analyze button pressed, or without (any other      *)
(* widget).  The session outlives the runs.                                 *)
(***************************************************************************)
AppInit ==
    /\ session_state = NewSession
    /\ request = NoRequest
    /\ sidebar = NewSidebar
    /\ NoEngine
    /\ NoSymbol
    /\ NoFeed
    /\ NoExport

\* The button pressed: the symbol in the box is fetched, then the page is
\* drawn.
AnalyzeStock ==
    /\ \E reply \in Replies :
          \E run \in {main(session_state, TRUE, Upper(sidebar.text), reply,
                           sidebar.show_ma, sidebar.show_bollinger, now_year)} :
              /\ session_state' = run.session_state
              /\ request' = run.request
    /\ UNCHANGED <<sidebar, engine_vars, symbol_vars, news_vars, export_vars>>

\* Another widget of the sidebar changed: the page is drawn again, yfinance
\* is not asked.
Rerun ==
    /\ \E text \in SymbolTexts, options \in ChartOptions :
          /\ sidebar' = Sidebar(text, options[1], options[2])
          /\ sidebar' # sidebar
          /\ \E run \in {main(session_state, FALSE, Upper(text), Unasked,
                              options[1], options[2], now_year)} :
                /\ session_state' = run.session_state
                /\ request' = run.request
    /\ UNCHANGED <<engine_vars, symbol_vars, news_vars, export_vars>>

AppNext ==
    \/ AnalyzeStock
    \/ Rerun

AppSpec == AppInit /\ [][AppNext]_vars

(***************************************************************************)
(* Properties.  They are stated over the integer closes of stock_data and  *)
(* over what the methods returned, not over the operators above.           *)
(***************************************************************************)
close == stock_data.Close
bars == Len(stock_data.Close)
\* The closes of the trailing w bars are all equal.
TrailingFlat(w) == \A j \in (bars - w + 1)..bars : close[j] = close[bars]
\* No close-to-close delta that ends inside the trailing w bars is negative.
NoTrailingLoss(w) == \A j \in (bars - w + 1)..bars : j > 1 => close[j] >= close[j - 1]
ConstantPrice == \A j \in 1..bars : close[j] = close[1]
\* "Undefined" read widely: None or NaN.
Undefined(x) == IsNa(x)

\* C1: when no delta inside the trailing 14-bar window is negative (the flat
\* window included), the RSI that get_technical_indicators returns is exactly
\* 100, never NaN.
RsiSaturatesWithoutLosses ==
    (technical.status = "ok" /\ bars > RsiWindow /\ NoTrailingLoss(RsiWindow))
        => technical.rsi = NumI(100)

\* C2: on a Series of at most 14 bars the RSI is undefined; 14 bars do not
\* yield a number.
RsiUndefinedUpToWindow ==
    (technical.status = "ok" /\ bars <= RsiWindow) => Undefined(technical.rsi)

\* The rows of the performance table for one period.
RowsNamed(name) ==
    {i \in 1..Len(performance.rows) : performance.rows[i].Period = name}
RowNamed(name) == performance.rows[CHOOSE i \in RowsNamed(name) : TRUE]
FixedLookbacks == {Periods[k] : k \in {k \in 1..Len(Periods) : Periods[k].name # "YTD"}}
SignPrefix(d) == IF d > 0 THEN "+" ELSE IF d < 0 THEN "-" ELSE ""
\* ret is the text of (last - start) / start * 100 with two decimals: the sign,
\* and hundredths within half a unit of 10000 * |last - start| / start.
IsReturnOf(ret, last, start) ==
    /\ ret.body = "num"
    /\ ret.prefix = SignPrefix(last - start)
    /\ 2 * Abs(ret.cents * start - 10000 * Abs(last - start)) <= start
\* ret reads sign, then hundredths/100 "%".
Reads(ret, sign, hundredths) ==
    ret.body = "num" /\ ret.prefix = sign /\ ret.cents = hundredths

\* C3: each fixed lookback n is reported exactly when the Series has more
\* than n bars, once, as (last - close[bars - n]) / close[bars - n] * 100
\* (positions from 1); closes 100, 110 give "1 Day" = +10.00% and no "1 Week".
LookbackReturns ==
    performance.status = "ok" =>
        /\ \A p \in FixedLookbacks :
              /\ Cardinality(RowsNamed(p.name)) = (IF bars > p.days THEN 1 ELSE 0)
              /\ bars > p.days =>
                    IsReturnOf(RowNamed(p.name).Return, close[bars], close[bars - p.days])
        /\ close = TwoBar =>
              /\ RowsNamed("1 Day") # {}
              /\ Reads(RowNamed("1 Day").Return, "+", 1000)
              /\ RowsNamed("1 Week") = {}
LookbackReturnsSeen ==
    /\ close = TwoBar
    /\ performance.status = "ok"
    /\ \E i \in 1..Len(performance.rows) :
          /\ performance.rows[i].Period = "1 Day"
          /\ performance.rows[i].Return.cents = 1000

\* C4 as stated: "1 Week" is about +5.00% on the closes rising 100..129 and
\* "1 Month" about -22.48% on the closes falling 129..100 (to a hundredth).
LinearSeriesReturnsAsStated ==
    performance.status = "ok" =>
        /\ close = Up30 =>
              /\ RowsNamed("1 Week") # {}
              /\ RowNamed("1 Week").Return.prefix = "+"
              /\ Abs(RowNamed("1 Week").Return.cents - 500) <= 1
        /\ close = Down30 =>
              /\ RowsNamed("1 Month") # {}
              /\ RowNamed("1 Month").Return.prefix = "-"
              /\ Abs(RowNamed("1 Month").Return.cents - 2248) <= 1
\* C4 amended: "1 Week" is +4.03% on the closes rising 100..129
\* ((129 - 124) / 124) and "1 Month" is -17.36% on the closes falling
\* 129..100 ((100 - 121) / 121).
LinearSeriesReturns ==
    performance.status = "ok" =>
        /\ close = Up30 =>
              RowsNamed("1 Week") # {} /\ Reads(RowNamed("1 Week").Return, "+", 403)
        /\ close = Down30 =>
              RowsNamed("1 Month") # {} /\ Reads(RowNamed("1 Month").Return, "-", 1736)
LinearSeriesReturnsSeen ==
    /\ close = Down30
    /\ performance.status = "ok"
    /\ \E i \in 1..Len(performance.rows) :
          /\ performance.rows[i].Period = "1 Month"
          /\ performance.rows[i].Return.prefix = "-"

\* x lies within tol of y (finite values).
Near(x, y, tol) == IsNum(x) /\ FLess(FSub(x, y), tol) /\ FLess(FSub(y, x), tol)
Hundredth == Num(Q(1, 100))

\* C5: on the closes falling 129..100 the max drawdown is negative and is the
\* decline from the first close 129 to the last close 100, in percent.
DrawdownIsDeclineFromFirstClose ==
    (volatility.status = "ok" /\ close = Down30) =>
        /\ FLt0(volatility.max_drawdown)
        /\ Near(volatility.max_drawdown,
                Num(Q((close[bars] - close[1]) * 100, close[1])), Hundredth)

\* C6: on every constant-price Series of at least one bar the volatility
\* metrics are returned with annualized volatility 0, Sharpe ratio 0 and max
\* drawdown 0.
ConstantPriceIsRiskFree ==
    (volatility.status # "idle" /\ bars >= 1 /\ ConstantPrice) =>
        /\ volatility.status = "ok"
        /\ volatility.annualized_volatility = NumI(0)
        /\ volatility.sharpe_ratio = NumI(0)
        /\ volatility.max_drawdown = NumI(0)

\* C7: when the trailing 20 closes are all equal (the bands coincide) the
\* Bollinger position is None and the division is not executed.
CoincidingBandsUndefined ==
    (technical.status = "ok" /\ bars >= BollingerWindow /\ TrailingFlat(BollingerWindow))
        => (technical.bollinger_position = None /\ ~technical.bb_divided)

\* Sums over the trailing w closes.
RECURSIVE TrailingSum(_, _)
TrailingSum(w, square) ==
    IF w = 0 THEN 0
    ELSE TrailingSum(w - 1, square)
         + (IF square THEN close[bars - w + 1] * close[bars - w + 1]
            ELSE close[bars - w + 1])
\* w * w * (w - 1) / w times the sample variance, and w times the distance
\* of the last close from the mean, of the trailing w closes: integers.
ScaledVariance(w) == w * TrailingSum(w, TRUE) - TrailingSum(w, FALSE) * TrailingSum(w, FALSE)
ScaledOffset(w) == w * close[bars] - TrailingSum(w, FALSE)
\* pos = (last - lower) / (upper - lower) * 100 with the bands at the mean
\* -/+ k standard deviations: pos - 50 = (100 / (2k)) * (last - mean) / std,
\* stated without the root as the equality of the squares and of the signs.
IsBandPosition(pos, w, k) ==
    /\ IsNum(pos)
    /\ FSign(FSub(pos, NumI(50))) = QSign(QInt(ScaledOffset(w)))
    /\ FMul(FSub(pos, NumI(50)), FSub(pos, NumI(50)))
          = Num(QMul(Q(ScaledOffset(w) * ScaledOffset(w), ScaledVariance(w)),
                     Q(2500 * (w - 1), k * k * w)))

\* C8: a non-empty Series of fewer than 20 bars has Bollinger position None
\* and no division is made; with at least 20 bars and bands apart the
\* position is (last - lower) / (upper - lower) * 100.
BollingerBandPosition ==
    technical.status = "ok" =>
        /\ (bars >= 1 /\ bars < BollingerWindow) =>
              (technical.bollinger_position = None /\ ~technical.bb_divided)
        /\ (bars >= BollingerWindow /\ ~TrailingFlat(BollingerWindow)) =>
              /\ technical.bb_divided
              /\ IsBandPosition(technical.bollinger_position,
                                BollingerWindow, BollingerNumStd)
BollingerBandPositionSeen ==
    /\ close = Up30
    /\ technical.status = "ok"
    /\ technical.bb_divided
    /\ IsNum(technical.bollinger_position)
    /\ ~IsRational(technical.bollinger_position)

\* C9: a Series whose dates are not strictly increasing is rejected before any
\* metric: no method returns a result computed from it.
MalformedSeriesRejected ==
    ~StrictlyIncreasing(stock_data.Date) =>
        /\ performance.status # "ok"
        /\ volatility.status # "ok"
        /\ technical.status # "ok"

\* C10: on a Series too short for some metric (the empty one included) no
\* method raises.
ShortSeriesNeverRaise ==
    bars <= BollingerWindow =>
        /\ performance.status # "raised"
        /\ volatility.status # "raised"
        /\ technical.status # "raised"

\* What a call handed to its caller: every key when it returned, nothing when
\* an exception left the method.
Reported(result, keys) == IF result.status = "ok" THEN keys ELSE {}

\* C11: the failure of one metric does not abort the others: after a call,
\* every metric of the method other than the failed one is reported.
IndependentMetrics ==
    /\ technical.status # "idle" =>
          (TechnicalMetrics \ technical.failed) \subseteq Reported(technical, TechnicalMetrics)
    /\ volatility.status # "idle" =>
          (VolatilityMetrics \ volatility.failed) \subseteq Reported(volatility, VolatilityMetrics)

\* C12: the operations are pure functions of the Series: once a method has
\* returned, calling it again on the same object, at any later time, returns
\* the same result (the YTD record of get_performance_metrics included).
PureOperations ==
    [][/\ performance.status # "idle" => performance' = performance
       /\ technical.status # "idle" => technical' = technical]_vars

\* The bars dated in the calendar year the clock shows.
BarsThisYear == {i \in 1..bars : stock_data.Date[i] \div DaysPerYear = now_year}
FirstBarThisYear == CHOOSE i \in BarsThisYear : \A j \in BarsThisYear : i <= j
\* The table holds exactly one YTD record; it reads 0.00% when no bar falls in
\* the current year, and else the change from the first close of the year.
YtdRecordRight ==
    /\ Cardinality(RowsNamed("YTD")) = 1
    /\ IF BarsThisYear = {}
       THEN Reads(RowNamed("YTD").Return, "", 0)
       ELSE IsReturnOf(RowNamed("YTD").Return, close[bars], close[FirstBarThisYear])

\* C13: every call of get_performance_metrics that returns (non-empty Series)
\* emits the YTD record: 0 when no bar falls in the current calendar year,
\* else (last - first close of the year) / (first close of the year) * 100.
YtdRecord ==
    [][(performance' # performance /\ performance'.status = "ok") => YtdRecordRight']_vars
\* A Series reaching back beyond New Year, its YTD record above zero.
YtdRecordSeen ==
    /\ performance.status = "ok"
    /\ now_year = BaseYear
    /\ BarsThisYear # {} /\ FirstBarThisYear > 1
    /\ close[bars] > close[FirstBarThisYear]
    /\ RowsNamed("YTD") # {}
    /\ RowNamed("YTD").Return.prefix = "+"

\* The keys of a performance record that hold text: the period's name and the
\* formatted return.
TextKeys == {"Period", "Return"}

\* C14: every emitted performance record carries the signed numeric percent
\* return, a key beside the name and the formatted text.
NumericReturnExposed ==
    performance.status = "ok" =>
        \A i \in 1..Len(performance.rows) :
            \E key \in DOMAIN performance.rows[i] : key \notin TextKeys

\* The overlays of a figure and the window each is computed over.
Overlays == {"MA 20", "MA 50", "BB Upper", "BB Lower"}
WindowOf(name) == IF name = "MA 50" THEN MaLongWindow ELSE MaShortWindow
Drawn == Overlays \cap DOMAIN fig

\* C15: every overlay drawn has one value per bar of the Series, undefined
\* (NaN) at each of the first w - 1 positions and a number from the w-th
\* position on (w = 20, or 50 for MA 50).
OverlayDefinedness ==
    \A name \in Drawn :
        /\ DOMAIN fig[name] = 1..bars
        /\ \A i \in 1..bars :
              IF i < WindowOf(name) THEN fig[name][i] = NaN ELSE IsNum(fig[name][i])
OverlayDefinednessSeen ==
    /\ Drawn = Overlays
    /\ bars > MaLongWindow
    /\ fig["MA 50"][MaLongWindow - 1] = NaN /\ IsNum(fig["MA 50"][MaLongWindow])
    /\ fig["BB Upper"][BandPeriod - 1] = NaN /\ IsNum(fig["BB Upper"][BandPeriod])

\* The Series with every bar after position cut moved by d.
RevisedAfter(cut, d) ==
    Series([j \in 1..bars |-> IF j > cut THEN close[j] + d ELSE close[j]], stock_data.Date)
\* The positions after which the Series is revised, and by how much.
Cuts == {cut \in 1..(bars - 1) :
            cut \in {bars - 1, bars \div 2, MaShortWindow, MaLongWindow}}
Moves == {1, 5}
RevisedFigure(cut, d) == create_line_chart(RevisedAfter(cut, d), TRUE, TRUE)

\* C16: no look-ahead: the overlays drawn for the Series and the overlays of
\* a Series that agrees with it up to position cut and differs after it are
\* the same at every position up to cut.
NoLookAhead ==
    Drawn # {} =>
        \A cut \in Cuts, d \in Moves :
            Bind(RevisedFigure(cut, d), LAMBDA revised :
                \A name \in Drawn, i \in 1..cut : revised[name][i] = fig[name][i])
NoLookAheadSeen ==
    /\ Drawn = Overlays
    /\ bars > MaLongWindow
    /\ \E cut \in Cuts :
          /\ cut >= MaLongWindow
          /\ Bind(RevisedFigure(cut, 1), LAMBDA revised :
                 \A name \in Overlays : revised[name][bars] # fig[name][bars])

\* The highest close among the bars lo..hi.
RECURSIVE HighestClose(_, _)
HighestClose(lo, hi) ==
    IF lo = hi THEN close[lo]
    ELSE Bind2(HighestClose(lo, (lo + hi) \div 2), HighestClose(((lo + hi) \div 2) + 1, hi),
               LAMBDA l, r : IF l >= r THEN l ELSE r)
\* 100 * (C - M) / M at bar t >= 2.  The cumulative product of (1 + return) up
\* to bar t is close[t] / close[1], so C / M is close[t] over the highest
\* close of the bars 2..t.
DrawdownPctAt(t) ==
    Bind(HighestClose(2, t), LAMBDA peak : Q(100 * (close[t] - peak), peak))

\* C17: with at least 2 bars the max drawdown reported is a number <= 0, the
\* least of 100 * (C_t - M_t) / M_t over the returns.
MaxDrawdownFormula ==
    (volatility.status = "ok" /\ bars >= 2) =>
        /\ IsRational(volatility.max_drawdown)
        /\ QSign(volatility.max_drawdown.a) <= 0
        /\ \E t \in 2..bars : volatility.max_drawdown.a = DrawdownPctAt(t)
        /\ \A t \in 2..bars : ~QLess(DrawdownPctAt(t), volatility.max_drawdown.a)
\* A deepest fall that the Series has recovered from at its last bar.
MaxDrawdownFormulaSeen ==
    /\ volatility.status = "ok"
    /\ bars > MaShortWindow
    /\ FLt0(volatility.max_drawdown)
    /\ DrawdownPctAt(bars) # volatility.max_drawdown.a

StrictlyRising == bars >= 2 /\ \A j \in 2..bars : close[j] > close[j - 1]
StrictlyFalling == bars >= 2 /\ \A j \in 2..bars : close[j] < close[j - 1]

\* C18: on a non-empty Series the histogram returned is the MACD returned
\* minus the signal returned, and the three are the last values of their
\* series: the MACD is 0 on a single bar, above 0 at the end of a strictly
\* rising Series and below 0 at the end of a strictly falling one.
MacdLastValues ==
    (technical.status = "ok" /\ bars >= 1) =>
        /\ IsRational(technical.macd) /\ IsRational(technical.macd_signal)
        /\ IsRational(technical.macd_histogram)
        /\ technical.macd_histogram.a = QSub(technical.macd.a, technical.macd_signal.a)
        /\ bars = 1 => technical.macd = NumI(0)
        /\ StrictlyRising => QSign(technical.macd.a) > 0
        /\ StrictlyFalling => QSign(technical.macd.a) < 0
MacdLastValuesSeen ==
    /\ technical.status = "ok"
    /\ StrictlyFalling
    /\ bars > MacdSlow
    /\ QSign(technical.macd.a) < 0
    /\ technical.macd_histogram # NumI(0)

\* C19: the MACD line, signal and histogram are None exactly on the empty
\* Series: on every non-empty Series, a single bar included, all three are
\* numbers.
MacdDefinedUnlessEmpty ==
    technical.status # "idle" =>
        /\ bars = 0 =>
              /\ technical.macd = None
              /\ technical.macd_signal = None
              /\ technical.macd_histogram = None
        /\ bars >= 1 =>
              /\ IsNum(technical.macd)
              /\ IsNum(technical.macd_signal)
              /\ IsNum(technical.macd_histogram)
MacdDefinedUnlessEmptySeen ==
    /\ technical.status = "ok"
    /\ bars = 1
    /\ IsNum(technical.macd) /\ IsNum(technical.macd_signal)

\* Some close-to-close delta ending inside the trailing w bars is not 0.
SomeTrailingMove(w) == \E j \in (bars - w + 1)..bars : j > 1 /\ close[j] # close[j - 1]
PercentRange(x) == IsNum(x) /\ ~FLt0(x) /\ ~FGt0(FSub(x, NumI(100)))

\* C20: the RSI returned is a number whenever the trailing window of 14 bars
\* is complete and holds a nonzero delta, and whenever it is a number it lies
\* in [0, 100].
RsiInPercentRange ==
    technical.status = "ok" =>
        /\ (bars >= RsiWindow /\ SomeTrailingMove(RsiWindow)) => IsNum(technical.rsi)
        /\ IsNum(technical.rsi) => PercentRange(technical.rsi)
RsiInPercentRangeSeen ==
    /\ technical.status = "ok"
    /\ IsNum(technical.rsi)
    /\ FGt0(technical.rsi)
    /\ FLt0(FSub(technical.rsi, NumI(100)))

\* The period names in the order the table lists them; the first six are the
\* fixed lookbacks, shortest first.
PeriodOrder == <<"1 Day", "1 Week", "1 Month", "3 Months", "6 Months", "1 Year", "YTD">>
Rank(name) == CHOOSE r \in 1..Len(PeriodOrder) : PeriodOrder[r] = name
PeriodsReported == {performance.rows[i].Period : i \in 1..Len(performance.rows)}

\* C27: the records of get_performance_metrics stand in the fixed order
\* 1 Day, 1 Week, 1 Month, 3 Months, 6 Months, 1 Year, YTD, and they are
\* prefix-closed: with a fixed lookback every shorter lookback is reported too.
PeriodsInFixedOrder ==
    performance.status = "ok" =>
        /\ \A i \in 1..Len(performance.rows) :
              \E r \in 1..Len(PeriodOrder) : PeriodOrder[r] = performance.rows[i].Period
        /\ \A i, j \in 1..Len(performance.rows) :
              i < j => Rank(performance.rows[i].Period) < Rank(performance.rows[j].Period)
        /\ \A name \in PeriodsReported \ {"YTD"} :
              \A r \in 1..(Rank(name) - 1) : PeriodOrder[r] \in PeriodsReported
PeriodsInFixedOrderSeen ==
    /\ performance.status = "ok"
    /\ bars > 63 /\ bars <= 126
    /\ PeriodsReported = {"1 Day", "1 Week", "1 Month", "3 Months", "YTD"}

\* A string without lower-case letters.
NoLowerCase(s) == \A i \in 1..Len(s) : s[i] \notin LowerChars

\* The digits symbol starts with, and what follows them.
StemLen ==
    CHOOSE n \in 0..Len(symbol) :
        /\ \A i \in 1..n : symbol[i] \in DigitChars
        /\ n < Len(symbol) => symbol[n + 1] \notin DigitChars
SuffixOfSymbol == SubSeq(symbol, StemLen + 1, Len(symbol))
DigitsThenSuffix ==
    /\ StemLen > 0
    /\ SuffixOfSymbol \in {<< >>, <<".", "H", "K">>, <<".", "h", "K">>,
                           <<".", "H", "E">>, <<".", "h", "E">>}
\* s is the first n characters of symbol after zeros up to four digits, then
\* ".HK".
PaddedStem(s, n) ==
    Bind(IF n < 4 THEN 4 - n ELSE 0, LAMBDA zeros :
        /\ Len(s) = zeros + n + 3
        /\ \A i \in 1..zeros : s[i] = "0"
        /\ \A i \in 1..n : s[zeros + i] = symbol[i]
        /\ SubSeq(s, zeros + n + 1, zeros + n + 3) = <<".", "H", "K">>)
HkSymbolPadded ==
    (formatted.status = "ok" /\ DigitsThenSuffix) => PaddedStem(formatted.value, StemLen)

\* C28: format_hk_symbol is idempotent (handed its own result it returns that
\* result), and on digits before an optional suffix the result is the digits
\* left-padded with zeros to at least four, then ".HK".
HkSymbolIdempotent ==
    /\ reformatted.status = "ok" => reformatted.value = formatted.value
    /\ HkSymbolPadded

\* C29: detect_market puts every symbol into one of the three markets and
\* returns a canonical formatted_symbol: upper-cased, and for Hong Kong the
\* value of format_hk_symbol(symbol).
FormattedSymbolCanonical ==
    market_info.status = "ok" =>
        /\ market_info.value.market \in {"Hong Kong", "United States", "Other"}
        /\ NoLowerCase(market_info.value.formatted_symbol)
        /\ (market_info.value.market = "Hong Kong" /\ formatted.status = "ok") =>
              market_info.value.formatted_symbol = formatted.value

\* The concatenated fetch results of the last news request, and the positions
\* in them at which a title occurs for the first time.
FetchResults == Collected(news.log, Len(news.log))
FirstOccurrences(c) == {i \in 1..Len(c) : \A j \in 1..(i - 1) : c[j].title # c[i].title}
\* a is c cut down to its first occurrences, and of these the first `limit`.
FirstOccurrencesUpTo(a, c, limit) ==
    Bind(FirstOccurrences(c), LAMBDA firsts :
        /\ Len(a) = (IF Cardinality(firsts) < limit THEN Cardinality(firsts) ELSE limit)
        /\ \A k \in 1..Len(a) :
              \E i \in firsts :
                  /\ Cardinality({j \in firsts : j < i}) = k - 1
                  /\ a[k] = c[i])

\* C25: each of the three news requests returns at most max_articles
\* articles with pairwise distinct titles, in the order of first occurrence
\* in the concatenated fetch results: a title is dropped only where it
\* repeats an earlier one or the limit is reached.
NewsDeduplicated ==
    news.status = "ok" =>
        /\ Len(news.articles) <= news.max_articles
        /\ \A i, j \in 1..Len(news.articles) :
              i # j => news.articles[i].title # news.articles[j].title
        /\ FirstOccurrencesUpTo(news.articles, FetchResults, news.max_articles)
NewsDeduplicatedSeen ==
    /\ news.status = "ok"
    /\ news.fn = "get_stock_news"
    /\ Len(news.articles) = news.max_articles
    /\ Len(news.articles) >= 2
    /\ \E i, j \in 1..Len(FetchResults) :
          /\ i < j
          /\ i \notin FirstOccurrences(FetchResults)
          /\ news.articles[Len(news.articles)] = FetchResults[j]
    /\ \E i \in 1..Len(FetchResults) :
          \A k \in 1..Len(news.articles) : news.articles[k].title # FetchResults[i].title

\* The entries of the feed at url that a fetch of up to max_items reads and
\* can turn into articles.
Readable(url, max_items) ==
    IF feeds[url].raises THEN {}
    ELSE {i \in 1..Len(feeds[url].entries) : i <= max_items /\ ~feeds[url].entries[i].raises}
\* articles holds one article for each readable entry, in the order of the
\* feed.
ArticlesOfReadable(articles, url, max_items) ==
    Bind(Readable(url, max_items), LAMBDA readable :
        /\ Len(articles) = Cardinality(readable)
        /\ \A k \in 1..Len(articles) :
              \E i \in readable :
                  /\ Cardinality({j \in readable : j < i}) = k - 1
                  /\ articles[k].link = <<url, i>>
                  /\ articles[k].title = (IF feeds[url].entries[i].has_title
                                          THEN feeds[url].entries[i].title ELSE "No Title"))
\* max_items of the fetch of url in request fn.
ItemsRead(fn, url) ==
    IF fn = "get_stock_news" THEN (IF url = YahooFinance THEN 2 ELSE 3)
    ELSE IF fn = "get_market_news" THEN 3
    ELSE 2
\* The first n fetches of the log searched the first n queries, one after
\* the other, and stopped before the last query only with max_articles
\* articles collected.
QueriesSearched(n) ==
    /\ n >= 1 /\ n <= Len(news.queries)
    /\ \A k \in 1..n : news.log[k].url = <<"google_news", news.queries[k]>>
    /\ \A k \in 1..(n - 1) : Len(Collected(news.log, k)) < news.max_articles
    /\ n < Len(news.queries) => Len(Collected(news.log, n)) >= news.max_articles

\* C26: a failing source or entry never aborts a news request: every fetch
\* yields the articles of the entries that could be read (none when the
\* source fails), every query or source is consulted in turn up to the
\* max_articles early exit, and get_stock_news always fetches Yahoo Finance
\* in the end.
NewsSurvivesFailures ==
    news # NoNews =>
        /\ news.status = "ok"
        /\ \A k \in 1..Len(news.log) :
              ArticlesOfReadable(news.log[k].articles, news.log[k].url,
                                 ItemsRead(news.fn, news.log[k].url))
        /\ news.fn = "get_stock_news" =>
              /\ QueriesSearched(Len(news.log) - 1)
              /\ news.log[Len(news.log)].url = <<"yahoo_finance">>
        /\ news.fn = "get_market_news" =>
              [k \in 1..Len(news.log) |-> news.log[k].url]
                  = << <<"yahoo_finance">>, <<"marketwatch">>, <<"reuters_business">> >>
        /\ news.fn = "get_hk_market_news" => QueriesSearched(Len(news.log))
NewsSurvivesFailuresSeen ==
    /\ news.status = "ok"
    /\ news.fn = "get_stock_news"
    /\ Len(news.log) = 3
    /\ feeds[news.log[1].url].raises
    /\ ~feeds[news.log[2].url].raises
    /\ \E i \in 1..Len(feeds[news.log[2].url].entries) :
          i <= 3 /\ feeds[news.log[2].url].entries[i].raises
    /\ Len(news.log[2].articles) >= news.max_articles
    /\ Len(news.log[3].articles) > 0

\* C21: no metrics, chart or export operation changes the table it is handed:
\* rows, columns, index name and values are after the operation what they
\* were before it.
TableNeverMutated == [][stock_data' = stock_data]_vars
TableNeverMutatedSeen ==
    /\ stock_data.index_name = "Datetime"
    /\ excel.status = "ok"
    /\ "Date" \in {excel.historical.columns[i] : i \in 1..Len(excel.historical.columns)}
    /\ key_metrics.status = "ok"
    /\ performance.status = "ok"
    /\ volatility.status = "ok"
    /\ technical.status = "ok"
    /\ "BB Upper" \in DOMAIN fig

\* C22: when the data provider fails for an Analyze request, FinancialMetrics
\* is not invoked in that request, whatever succeeded earlier in the session.
EngineIdleOnFailedFetch ==
    request.fetch = "failed" => ~request.engine

\* The session holds no table, or a table with rows together with the
\* dictionary, the market and the symbol.
SessionWhole ==
    \/ /\ session_state["stock_data"] = Null
       /\ session_state["stock_info"] = Null
    \/ /\ DOMAIN session_state = {"stock_data", "stock_info", "market_info", "symbol"}
       /\ \A key \in {"stock_data", "stock_info", "market_info"} : session_state[key] # Null
       /\ Len(session_state["stock_data"].Close) > 0
\* A run with a successful fetch leaves in the session the table, dictionary
\* and market of that fetch and the symbol asked for; any other run leaves
\* the session as it was.
SessionStep ==
    /\ request'.fetch = "ok" =>
          /\ DOMAIN session_state' = {"stock_data", "stock_info", "market_info", "symbol"}
          /\ session_state'["stock_data"] = request'.fetched.stock_data
          /\ session_state'["stock_info"] = request'.fetched.stock_info
          /\ session_state'["market_info"] = request'.fetched.market_info
          /\ session_state'["symbol"] = request'.stock_symbol
    /\ request'.fetch # "ok" => session_state' = session_state

\* C23: over any sequence of Analyze requests the session holds no table or
\* a non-empty one; with a table it holds stock_info, market_info and symbol,
\* all four from one successful fetch; a failed request and one without a
\* symbol leave all four unchanged.
SessionFromOneFetch == []SessionWhole /\ [][SessionStep]_vars
SessionFromOneFetchSeen ==
    /\ request.clicked
    /\ request.fetch = "failed"
    /\ request.fetched.stock_data # Null
    /\ session_state["stock_data"] # Null
    /\ session_state["symbol"] # request.stock_symbol

\* C24: with a table of at least one bar loaded the header computes the
\* price change without raising, from stock_info['previousClose'] when the
\* key is there and from the second-to-last close only when it is not.
HeaderNeverRaises ==
    (request.view # "none" /\ session_state["stock_data"] # Null) =>
        /\ request.header.status = "ok"
        /\ IF "previousClose" \in DOMAIN session_state["stock_info"]
           THEN request.header.previous_close = NumI(session_state["stock_info"]["previousClose"])
           ELSE request.header.previous_close
                    = NumI(session_state["stock_data"].Close[Len(session_state["stock_data"].Close) - 1])

====
